---- MODULE Spec2Model ----
(***************************************************************************)
(* A model of daml-sast: the rule walker and the finding finalization      *)
(* (walker/walk.py, engine/runner.py, util/fingerprint.py), and the        *)
(* archive loading pipeline (lf/archive.py, lf/decoder.py, lf/loader.py).  *)
(*                                                                         *)
(* Python's Optional[T] is modelled as a sequence: <<>> is None and <<x>>  *)
(* is the value x.  Names are tuples such as <<"T", 1>>.                   *)
(***************************************************************************)
EXTENDS Integers, Sequences, FiniteSets, TLC

VARIABLES
    \* ---- engine/runner.py run and walker/walk.py walk_program
    program,      \* the Program handed to run
    rules,        \* the rule list handed to run
    agenda,       \* the pending work of walk_program, first item next
    log,          \* every hook call made so far, in call order
    findings,     \* run's local list that emit appends to
    finalized,    \* run's local list `finalized`
    pc,           \* "idle" | "init" | "walking" | "returned" | "raised"
    \* ---- util/fingerprint.py compute_fingerprint
    fpFindings,   \* the two findings compared
    fpValues,     \* None, or the fingerprints computed for the two
    \* ---- lf/decoder.py decode_dalf
    dalf,         \* None, or the DalfEntry handed to decode_dalf
    decoded,      \* None, or what decode_dalf gave back
    \* ---- lf/loader.py load_program_from_dar and lf/archive.py
    dar,                 \* the container at the path handed to the loader
    lpc,                 \* "idle" | "stat" | "open" | "scan" | "decode"
                         \* | "returned" | "failed"
    scanned,             \* how many entries the loop of the extractor has taken
    total_uncompressed,  \* extract_dalf_entries' running total
    entries,             \* extract_dalf_entries' list `entries`
    checks,              \* the limit checks and reads made so far, in order
    packages,            \* the packages decoded so far
    loaded,              \* None, or the Program returned
    load_error,          \* None, or the exception that ended the load
    \* ---- analysis/party.py PartySet
    psArgs,       \* None, or the two party sets a and b
    psOut,        \* None, or what the operations of PartySet gave for them
    \* ---- rules/examples.py, the visit_choice hooks
    ruleSubject,  \* None, or the template and the choice handed to the hooks
    ruleFindings, \* None, or the findings each rule emitted for the choice
    \* ---- cli.py main
    cliArgs,      \* None, or the command line and what it names on disk
    cliFiles,     \* the baseline files, by path
    cliPc,        \* "idle" | "start" | "resolved" | "loaded" | "ran"
                  \* | "filtered" | "done"
    cliOpts,      \* None, or the options main merged from arguments and config
    cliFindings,  \* main's list `findings`
    cliReport,    \* None, or what _emit wrote
    cliExit,      \* None, or how main ended: returned a code or raised
    cliHistory,   \* the scans that ended before this one
    \* ---- suppress.py apply_suppressions
    supArgs,      \* None, or the findings and the suppressions handed over
    supKept,      \* None, or the list apply_suppressions returned
    \* ---- analysis/party.py infer_party_set
    inferArgs,    \* None, or the expression and the environment of the call
    inferOut,     \* None, or the PartySet infer_party_set returned
    \* ---- ir/lower.py lowering of a definition
    lowerArgs,    \* None, or the dialect, the interned tables and the definition
    lowerOut,     \* None, or what the lowering returned or raised
    \* ---- lf/resolve.py on the tables of a package
    resolveArgs,    \* None, or the package, the lookup and its index
    resolveTables,  \* None, or what _extract_interned_tables returned or raised
    resolveOut,     \* None, or the text the lookup returned
    \* ---- the registered rules on a program, run and the baseline of cli.py
    siteProgram,    \* None, or the packages of the scanned program
    siteFindings,   \* None, or what run returned, each finding with its site
    siteKept        \* None, or the chosen finding and what the baseline kept

walkVars == <<program, rules, agenda, log, findings, finalized, pc>>

fpVars == <<fpFindings, fpValues>>

decodeVars == <<dalf, decoded>>

loadVars ==
    <<dar, lpc, scanned, total_uncompressed, entries, checks, packages, loaded, load_error>>

partyVars == <<psArgs, psOut>>

ruleVars == <<ruleSubject, ruleFindings>>

cliVars == <<cliArgs, cliFiles, cliPc, cliOpts, cliFindings, cliReport, cliExit, cliHistory>>

supVars == <<supArgs, supKept>>

inferVars == <<inferArgs, inferOut>>

lowerVars == <<lowerArgs, lowerOut>>

resolveVars == <<resolveArgs, resolveTables, resolveOut>>

siteVars == <<siteProgram, siteFindings, siteKept>>

vars == <<walkVars, fpVars, decodeVars, loadVars, partyVars, ruleVars, cliVars, supVars, inferVars, lowerVars, resolveVars, siteVars>>

\* the variables that run and walk_program leave alone
notWalkVars == <<fpVars, decodeVars, loadVars, partyVars, ruleVars, cliVars, supVars, inferVars, lowerVars, resolveVars, siteVars>>

\* the variables that compute_fingerprint leaves alone
notFpVars == <<walkVars, decodeVars, loadVars, partyVars, ruleVars, cliVars, supVars, inferVars, lowerVars, resolveVars, siteVars>>

\* the variables that decode_dalf leaves alone
notDecodeVars == <<walkVars, fpVars, loadVars, partyVars, ruleVars, cliVars, supVars, inferVars, lowerVars, resolveVars, siteVars>>

\* the variables that load_program_from_dar leaves alone
notLoadVars == <<walkVars, fpVars, decodeVars, partyVars, ruleVars, cliVars, supVars, inferVars, lowerVars, resolveVars, siteVars>>

\* the variables that PartySet leaves alone
notPartyVars == <<walkVars, fpVars, decodeVars, loadVars, ruleVars, cliVars, supVars, inferVars, lowerVars, resolveVars, siteVars>>

\* the variables that a rule hook leaves alone
notRuleVars == <<walkVars, fpVars, decodeVars, loadVars, partyVars, cliVars, supVars, inferVars, lowerVars, resolveVars, siteVars>>

\* the variables that main leaves alone
notCliVars == <<walkVars, fpVars, decodeVars, loadVars, partyVars, ruleVars, supVars, inferVars, lowerVars, resolveVars, siteVars>>

\* the variables that apply_suppressions leaves alone
notSupVars == <<walkVars, fpVars, decodeVars, loadVars, partyVars, ruleVars, cliVars, inferVars, lowerVars, resolveVars, siteVars>>

\* the variables that infer_party_set leaves alone
notInferVars == <<walkVars, fpVars, decodeVars, loadVars, partyVars, ruleVars, cliVars, supVars, lowerVars, resolveVars, siteVars>>

\* the variables that lowering leaves alone
notLowerVars == <<walkVars, fpVars, decodeVars, loadVars, partyVars, ruleVars, cliVars, supVars, inferVars, resolveVars, siteVars>>

\* the variables that resolver leaves alone
notResolveVars == <<walkVars, fpVars, decodeVars, loadVars, partyVars, ruleVars, cliVars, supVars, inferVars, lowerVars, siteVars>>

\* the variables that the scan of the sites leaves alone
notSiteVars == <<walkVars, fpVars, decodeVars, loadVars, partyVars, ruleVars, cliVars, supVars, inferVars, lowerVars, resolveVars>>

\* ------------------------------------------------------------------ bounds

\* packages + modules per package + templates per module + choices per
\* template + values per module of a generated program never exceed this
MaxProgramSize == 5
\* the longest rule list handed to run
MaxRules == 2

\* ------------------------------------------------------------- sequences

None == <<>>
Some(x) == <<x>>

RECURSIVE Concat(_)
Concat(ss) == IF ss = <<>> THEN <<>> ELSE Head(ss) \o Concat(Tail(ss))

SeqMap(Op(_), s) == [i \in 1..Len(s) |-> Op(s[i])]

\* the subsets of S of at most k elements
RECURSIVE SubsetsUpTo(_, _)
SubsetsUpTo(S, k) ==
    IF k = 0 THEN {{}}
    ELSE LET smaller == SubsetsUpTo(S, k - 1)
         IN  smaller \cup { x \cup {e} : x \in smaller, e \in S }

IsPrefix(s, t) == Len(s) <= Len(t) /\ SubSeq(t, 1, Len(s)) = s

\* ------------------------------------------------------------ ir/model.py

Expr(kind, children) == [kind |-> kind, children |-> children]

Leaf == Expr("party", <<>>)

\* the expression trees the generated programs are built from
ExprShapes ==
    << Leaf,
       Expr("list", <<Leaf, Leaf>>),
       Expr("cons", <<Expr("list", <<Leaf>>), Leaf>>) >>

ShapeFor(variant, role) == ExprShapes[((variant + role) % Len(ExprShapes)) + 1]

Opt(present, x) == IF present THEN Some(x) ELSE None

Choice(variant, k) ==
    [ name        |-> <<"C", k>>,
      consuming   |-> (k % 2 = 0),
      controllers |-> ShapeFor(variant, k),
      observers   |-> Opt((variant + k) % 2 = 0, ShapeFor(variant, k + 1)),
      authorizers |-> Opt(((variant + k) \div 2) % 2 = 1, ShapeFor(variant, k + 2)),
      update      |-> ShapeFor(variant, k + 3) ]

TemplateKey(variant, j) ==
    [ body |-> ShapeFor(variant, j + 2), maintainers |-> ShapeFor(variant, j + 3) ]

Template(variant, j, nc) ==
    [ name        |-> <<"T", j>>,
      signatories |-> ShapeFor(variant, j + 1),
      observers   |-> ShapeFor(variant, j),
      precond     |-> Opt((variant + j) % 2 = 1, ShapeFor(variant, j + 4)),
      key         |-> Opt(((variant + j) \div 2) % 2 = 1, TemplateKey(variant, j)),
      choices     |-> [k \in 1..nc |-> Choice(variant + j, k)] ]

ValueDef(variant, v) == [ name |-> <<"v", v>>, body |-> ShapeFor(variant, v + 2) ]

Module(variant, m, nt, nc, nv) ==
    [ name      |-> <<"M", m>>,
      templates |-> [j \in 1..nt |-> Template(variant + m, j, nc)],
      values    |-> [v \in 1..nv |-> ValueDef(variant + m, v)] ]

Package(variant, p, nm, nt, nc, nv) ==
    [ package_id |-> <<"pkg", p>>,
      modules    |-> [m \in 1..nm |-> Module(variant + p, m, nt, nc, nv)] ]

Program(variant, np, nm, nt, nc, nv) ==
    [ packages |-> [p \in 1..np |-> Package(variant, p, nm, nt, nc, nv)] ]

Variants == 0..3

ProgramSizes ==
    { sz \in [ np : 1..MaxProgramSize, nm : 1..MaxProgramSize,
               nt : 0..MaxProgramSize, nc : 0..MaxProgramSize,
               nv : 0..MaxProgramSize ] :
        /\ sz.np + sz.nm + sz.nt + sz.nc + sz.nv <= MaxProgramSize
        \* choices exist only inside a template
        /\ (sz.nt = 0 => sz.nc = 0) }

Programs ==
    { Program(variant, sz.np, sz.nm, sz.nt, sz.nc, sz.nv) :
        variant \in Variants, sz \in ProgramSizes }

\* ---------------------------------------------------------- rules/base.py

Ctx(package_id, module_name) ==
    [ package_id    |-> package_id,
      module_name   |-> module_name,
      template_name |-> None,
      choice_name   |-> None,
      path          |-> <<>> ]

\* Ctx.derive: an argument left out is None
derive(ctx, template_name, choice_name, path_append) ==
    [ package_id    |-> ctx.package_id,
      module_name   |-> ctx.module_name,
      template_name |-> IF template_name # None THEN template_name ELSE ctx.template_name,
      choice_name   |-> IF choice_name # None THEN choice_name ELSE ctx.choice_name,
      path          |-> IF path_append # None THEN Append(ctx.path, path_append[1])
                                              ELSE ctx.path ]

ExprOwner ==
    { "template_signatories", "template_observers", "template_key_body",
      "template_key_maintainers", "template_precond", "choice_controllers",
      "choice_observers", "choice_authorizers", "choice_update", "value_body" }

\* ------------------------------------------------- model.py, the findings

\* Finding.fingerprint: str | None
NoFingerprint == [kind |-> "none"]
EmptyFingerprint == [kind |-> "empty"]
PresetFingerprint(text) == [kind |-> "preset", text |-> text]
Sha256(payload) == [kind |-> "sha256", payload |-> payload]

\* the truth value Python gives a fingerprint: None and "" are false
Truthy(fp) == fp.kind \notin {"none", "empty"}

Location(module, definition, span) ==
    [ module |-> module, definition |-> definition, span |-> span ]

Finding(id, severity, message, location, metadata, fingerprint) ==
    [ id          |-> id,
      title       |-> <<"title of", id>>,
      severity    |-> severity,
      confidence  |-> "MEDIUM",
      category    |-> "auth",
      message     |-> message,
      location    |-> location,
      evidence    |-> <<>>,
      related     |-> <<>>,
      metadata    |-> metadata,
      fingerprint |-> fingerprint ]

\* --------------------------------------------------- util/fingerprint.py

\* Finding.metadata is a dict: a sequence of <<key, value>> items in insertion
\* order, no key twice.  Two dicts are equal when they hold the same items.
MetadataKeys == <<"choice", "k", "owner", "template">>

\* the place of a key in Python's order of str
KeyRank(k) == CHOOSE i \in DOMAIN MetadataKeys : MetadataKeys[i] = k

DictEq(a, b) == {a[i] : i \in DOMAIN a} = {b[i] : i \in DOMAIN b}

RECURSIVE InsertByKey(_, _)
InsertByKey(item, sorted) ==
    IF sorted = <<>> THEN <<item>>
    ELSE IF KeyRank(item[1]) < KeyRank(Head(sorted)[1]) THEN <<item>> \o sorted
    ELSE <<Head(sorted)>> \o InsertByKey(item, Tail(sorted))

\* {k: metadata[k] for k in sorted(metadata)}
RECURSIVE SortedItems(_)
SortedItems(metadata) ==
    IF metadata = <<>> THEN <<>>
    ELSE InsertByKey(Head(metadata), SortedItems(Tail(metadata)))

\* a fingerprint that leaves the metadata out of the payload
compute_fingerprint_NoMetadata(finding) ==
    [ kind |-> "sha256",
      payload |-> [ id         |-> finding.id,
                    module     |-> finding.location.module,
                    definition |-> finding.location.definition ] ]

\* json.dumps of the payload is one-to-one on the payload and SHA-256 is taken
\* to be one-to-one: the digest is modelled by the payload it is computed
\* from.
compute_fingerprint(finding) ==
    LET sp == finding.location.span
        span == IF sp # None
                THEN Some([ start_line |-> sp[1].start_line,
                            start_col  |-> sp[1].start_col,
                            end_line   |-> sp[1].end_line,
                            end_col    |-> sp[1].end_col ])
                ELSE None
    IN  Sha256([ id         |-> finding.id,
                 module     |-> finding.location.module,
                 definition |-> finding.location.definition,
                 span       |-> span,
                 metadata   |-> SortedItems(finding.metadata) ])

\* no call of compute_fingerprint is under way
FpIdle == fpFindings = <<>> /\ fpValues = None

\* no call of decode_dalf is under way
DecodeIdle == dalf = None /\ decoded = None

\* no call of load_program_from_dar is under way
LoadIdle ==
    /\ dar = None /\ lpc = "idle" /\ scanned = 0 /\ total_uncompressed = 0
    /\ entries = <<>> /\ checks = <<>> /\ packages = <<>> /\ loaded = None
    /\ load_error = None

\* no operation of PartySet is under way
PartyIdle ==
    psArgs = None /\ psOut = None

\* no rule hook is under way
RuleIdle ==
    ruleSubject = None /\ ruleFindings = None

\* no scan is running
CliIdle ==
    /\ cliArgs = None /\ cliFiles = <<>> /\ cliPc = "idle" /\ cliOpts = None
    /\ cliFindings = <<>> /\ cliReport = None /\ cliExit = None /\ cliHistory = <<>>

\* no suppression is applied
SupIdle ==
    supArgs = None /\ supKept = None

\* infer_party_set is not called
InferIdle ==
    inferArgs = None /\ inferOut = None

\* nothing is lowered
LowerIdle ==
    lowerArgs = None /\ lowerOut = None

\* no name is resolved
ResolveIdle ==
    resolveArgs = None /\ resolveTables = None /\ resolveOut = None

\* no program is scanned for the sites of its findings
SiteIdle ==
    siteProgram = None /\ siteFindings = None /\ siteKept = None

\* ------------------------------------------------------------- the rules

\* What a rule's hook does when called: it returns after emitting the
\* findings `emits`, or it raises.  A rule is pure: what a hook does is a
\* function of its arguments.
Returns(emits) == [raises |-> FALSE, emits |-> emits]
Raises == [raises |-> TRUE, emits |-> <<>>]

ModuleOrUnknown(ctx) ==
    IF ctx.module_name # <<>> THEN ctx.module_name ELSE <<"<unknown>">>

\* The behaviours of the rules handed to run.  STRUCT emits from
\* visit_package and visit_module (no fingerprint) and from visit_template
\* (an empty fingerprint), CHOICE from visit_choice (no fingerprint), EXPR
\* from visit_expr on a node without children (a fingerprint set by the
\* rule); RAISE fails in visit_choice.
HookOutcome(rule, hook, ctx, owner, node) ==
    CASE rule = "STRUCT" /\ hook \in {"visit_package", "visit_module"} ->
            Returns(<< Finding(rule, "LOW", hook,
                               Location(ModuleOrUnknown(ctx), <<hook>>, None),
                               <<>>, NoFingerprint) >>)
      [] rule = "STRUCT" /\ hook = "visit_template" ->
            Returns(<< Finding(rule, "HIGH", hook,
                               Location(ModuleOrUnknown(ctx), <<"Template", node.name>>, None),
                               << <<"template", node.name>> >>, EmptyFingerprint) >>)
      [] rule = "CHOICE" /\ hook = "visit_choice" ->
            Returns(<< Finding(rule, "MEDIUM", hook,
                               Location(ModuleOrUnknown(ctx), <<"Choice", node.name>>, None),
                               << <<"template", ctx.template_name[1]>>,
                                  <<"choice", node.name>> >>,
                               NoFingerprint) >>)
      [] rule = "EXPR" /\ hook = "visit_expr" /\ node.children = <<>> ->
            Returns(<< Finding(rule, "LOW", hook,
                               Location(ModuleOrUnknown(ctx), <<owner>>, None),
                               <<>>, PresetFingerprint(<<"set by", rule>>)) >>)
      [] rule = "RAISE" /\ hook = "visit_choice" -> Raises
      [] OTHER -> Returns(<<>>)

RuleProfiles == {"STRUCT", "CHOICE", "EXPR", "RAISE"}

\* the rule lists handed to run: the rules of a list are distinct, as those
\* of registry() are
RuleLists ==
    { rs \in UNION { [1..n -> RuleProfiles] : n \in 1..MaxRules } :
        \A i, j \in DOMAIN rs : rs[i] = rs[j] => i = j }

\* ------------------------------------------------------ engine/runner.py

\* run's closure emit: append to run's findings
emit(fs, f) == Append(fs, f)

RECURSIVE EmitAll(_, _)
EmitAll(fs, emits) ==
    IF emits = <<>> THEN fs ELSE EmitAll(emit(fs, Head(emits)), Tail(emits))

\* the entry of the log for one hook call
HookCall(hook, i, ctx, owner, epath, out) ==
    [ hook |-> hook, rule |-> i, ctx |-> ctx, owner |-> owner, epath |-> epath,
      raised |-> out.raises, emitted |-> out.emits ]

\* `for rule in rules: rule.<hook>(...)`, from the i-th rule on: the calls
\* stop at the first hook that raises.
RECURSIVE CallHooks(_, _, _, _, _, _, _, _)
CallHooks(rs, i, hook, ctx, owner, epath, node, acc) ==
    IF i > Len(rs) THEN acc
    ELSE LET out == HookOutcome(rs[i], hook, ctx, owner, node)
             nxt == [ log      |-> Append(acc.log, HookCall(hook, i, ctx, owner, epath, out)),
                      findings |-> EmitAll(acc.findings, out.emits),
                      raised   |-> out.raises ]
         IN  IF out.raises THEN nxt
             ELSE CallHooks(rs, i + 1, hook, ctx, owner, epath, node, nxt)

\* -------------------------------------------------------- walker/walk.py

\* The nested loops and the recursion of walk_program are kept as an agenda:
\* the work still to do, in the order the code does it.  Visiting an item
\* calls its hook for every rule and puts the item's own loops in its place.
Task(t, ctx, owner, node, parent) ==
    [ t |-> t, ctx |-> ctx, owner |-> owner, node |-> node, parent |-> parent ]

\* a call _walk_expr(expr, ctx, owner, rules, emit) made by walk_program
ExprTask(expr, ctx, owner) == Task("expr", Some(ctx), owner, expr, None)

\* for pkg in program.packages
PackageTasks(prog) ==
    [ p \in 1..Len(prog.packages) |->
        Task("package", None, "", prog.packages[p], None) ]

\* for mod in pkg.modules
ModuleTasks(pkg) ==
    [ m \in 1..Len(pkg.modules) |->
        Task("module", None, "", pkg.modules[m], Some(pkg)) ]

\* for template in mod.templates
TemplateTasks(mod_ctx, mod) ==
    [ j \in 1..Len(mod.templates) |->
        Task("template", Some(mod_ctx), "", mod.templates[j], None) ]

\* for value in mod.values: the walk of value.body under v_ctx
ValueTasks(mod_ctx, mod) ==
    [ v \in 1..Len(mod.values) |->
        ExprTask(mod.values[v].body,
                 derive(mod_ctx, None, None, Some(<<"value", mod.values[v].name>>)),
                 "value_body") ]

\* a walker that takes the value bodies of a module before its templates
ModuleBody_ValuesFirst(mod_ctx, mod) ==
    ValueTasks(mod_ctx, mod) \o TemplateTasks(mod_ctx, mod)

\* the body of `for mod in pkg.modules` after the visit_module calls
ModuleBody(mod_ctx, mod) == TemplateTasks(mod_ctx, mod) \o ValueTasks(mod_ctx, mod)

\* the walks of a template's role expressions
TemplateRoles(t_ctx, template) ==
    << ExprTask(template.signatories, t_ctx, "template_signatories"),
       ExprTask(template.observers, t_ctx, "template_observers") >>
    \o (IF template.precond # None
        THEN << ExprTask(template.precond[1], t_ctx, "template_precond") >>
        ELSE <<>>)
    \o (IF template.key # None
        THEN << ExprTask(template.key[1].body, t_ctx, "template_key_body"),
                ExprTask(template.key[1].maintainers, t_ctx, "template_key_maintainers") >>
        ELSE <<>>)

\* for choice in template.choices
ChoiceTasks(t_ctx, template) ==
    [ k \in 1..Len(template.choices) |->
        Task("choice", Some(t_ctx), "", template.choices[k], Some(template)) ]

\* the body of `for template in mod.templates` after the visit_template calls
TemplateBody(t_ctx, template) ==
    TemplateRoles(t_ctx, template) \o ChoiceTasks(t_ctx, template)

\* the body of `for choice in template.choices` after the visit_choice calls
ChoiceBody(c_ctx, choice) ==
    << ExprTask(choice.controllers, c_ctx, "choice_controllers") >>
    \o (IF choice.observers # None
        THEN << ExprTask(choice.observers[1], c_ctx, "choice_observers") >>
        ELSE <<>>)
    \o (IF choice.authorizers # None
        THEN << ExprTask(choice.authorizers[1], c_ctx, "choice_authorizers") >>
        ELSE <<>>)
    \o << ExprTask(choice.update, c_ctx, "choice_update") >>

\* a walker that takes the children last to first
ChildOrder_LastFirst(expr) ==
    [ i \in 1..Len(expr.children) |-> Len(expr.children) + 1 - i ]

\* the order in which `for child in expr.children` takes the children
ChildOrder(expr) == [ i \in 1..Len(expr.children) |-> i ]

\* _walk_expr(expr, ctx, owner, rules, emit): the hook of every rule for expr,
\* then the walk of each child; a hook that raises ends the walk.  epath is
\* the place of expr under the role expression (the child numbers from the
\* root), kept for the log only.
RECURSIVE walk_expr(_, _, _, _, _, _), walk_children(_, _, _, _, _, _, _)
walk_expr(rs, expr, ctx, owner, epath, acc) ==
    LET r == CallHooks(rs, 1, "visit_expr", ctx, owner, epath, expr, acc)
    IN  IF r.raised THEN r
        ELSE walk_children(rs, expr, ctx, owner, epath, ChildOrder(expr), r)

walk_children(rs, expr, ctx, owner, epath, order, acc) ==
    IF order = <<>> THEN acc
    ELSE LET i == Head(order)
             r == walk_expr(rs, expr.children[i], ctx, owner, Append(epath, i), acc)
         IN  IF r.raised THEN r
             ELSE walk_children(rs, expr, ctx, owner, epath, Tail(order), r)

NoCalls == [log |-> log, findings |-> findings, raised |-> FALSE]

\* One step of the walk: the hook calls `r` were made for the first item of
\* the agenda and `body` is the work the item stands for.  A hook that raised
\* ends walk_program and run: nothing catches the exception.
Step(r, body) ==
    /\ log' = r.log
    /\ findings' = r.findings
    /\ IF r.raised
       THEN pc' = "raised" /\ agenda' = <<>>
       ELSE pc' = "walking" /\ agenda' = body \o Tail(agenda)
    /\ UNCHANGED <<program, rules, finalized, notWalkVars>>

\* run(rules, program), up to the call of walk_program
Run ==
    /\ pc = "init"
    /\ pc' = "walking"
    /\ agenda' = PackageTasks(program)
    /\ UNCHANGED <<program, rules, log, findings, finalized, notWalkVars>>

VisitPackage ==
    /\ pc = "walking" /\ agenda # <<>> /\ Head(agenda).t = "package"
    /\ LET pkg == Head(agenda).node
           pkg_ctx == Ctx(pkg.package_id, <<>>)
       IN  Step(CallHooks(rules, 1, "visit_package", pkg_ctx, "", <<>>, pkg, NoCalls),
                ModuleTasks(pkg))

VisitModule ==
    /\ pc = "walking" /\ agenda # <<>> /\ Head(agenda).t = "module"
    /\ LET mod == Head(agenda).node
           pkg == Head(agenda).parent[1]
           mod_ctx == Ctx(pkg.package_id, mod.name)
       IN  Step(CallHooks(rules, 1, "visit_module", mod_ctx, "", <<>>, mod, NoCalls),
                ModuleBody(mod_ctx, mod))

VisitTemplate ==
    /\ pc = "walking" /\ agenda # <<>> /\ Head(agenda).t = "template"
    /\ LET template == Head(agenda).node
           t_ctx == derive(Head(agenda).ctx[1], Some(template.name), None,
                           Some(<<"template", template.name>>))
       IN  Step(CallHooks(rules, 1, "visit_template", t_ctx, "", <<>>, template, NoCalls),
                TemplateBody(t_ctx, template))

VisitChoice ==
    /\ pc = "walking" /\ agenda # <<>> /\ Head(agenda).t = "choice"
    /\ LET choice == Head(agenda).node
           c_ctx == derive(Head(agenda).ctx[1], None, Some(choice.name),
                           Some(<<"choice", choice.name>>))
       IN  Step(CallHooks(rules, 1, "visit_choice", c_ctx, "", <<>>, choice, NoCalls),
                ChoiceBody(c_ctx, choice))

WalkExpr ==
    /\ pc = "walking" /\ agenda # <<>> /\ Head(agenda).t = "expr"
    /\ LET task == Head(agenda)
       IN  Step(walk_expr(rules, task.node, task.ctx[1], task.owner, <<>>, NoCalls),
                <<>>)

\* a finalization that computes the fingerprint of every finding
FinalizeOne_AlwaysComputed(f) == [f EXCEPT !.fingerprint = compute_fingerprint(f)]

\* run's loop over findings: a finding with a fingerprint is kept, one
\* without gets the computed one
FinalizeOne(f) ==
    IF Truthy(f.fingerprint) THEN f
    ELSE [f EXCEPT !.fingerprint = compute_fingerprint(f)]

RECURSIVE Finalize(_, _)
Finalize(fs, acc) ==
    IF fs = <<>> THEN acc
    ELSE Finalize(Tail(fs), Append(acc, FinalizeOne(Head(fs))))

\* walk_program has returned: run finalizes the findings and returns
Return ==
    /\ pc = "walking" /\ agenda = <<>>
    /\ finalized' = Finalize(findings, <<>>)
    /\ pc' = "returned"
    /\ UNCHANGED <<program, rules, agenda, log, findings, notWalkVars>>

WalkInit ==
    /\ program \in Programs
    /\ rules \in RuleLists
    /\ agenda = <<>>
    /\ log = <<>>
    /\ findings = <<>>
    /\ finalized = <<>>
    /\ pc = "init"
    /\ FpIdle /\ DecodeIdle /\ LoadIdle /\ PartyIdle /\ RuleIdle /\ CliIdle /\ SupIdle /\ InferIdle /\ LowerIdle /\ ResolveIdle /\ SiteIdle

WalkNext ==
    \/ Run
    \/ VisitPackage
    \/ VisitModule
    \/ VisitTemplate
    \/ VisitChoice
    \/ WalkExpr
    \/ Return

Init == WalkInit

Next == WalkNext

Spec == Init /\ [][Next]_vars

\* ============================================= compute_fingerprint alone

\* no run is under way
WalkIdle ==
    /\ program = None /\ rules = <<>> /\ agenda = <<>> /\ log = <<>>
    /\ findings = <<>> /\ finalized = <<>> /\ pc = "idle"

SourceSpan(file, start_line, start_col, end_line, end_col) ==
    [ file |-> file, start_line |-> start_line, start_col |-> start_col,
      end_line |-> end_line, end_col |-> end_col ]

\* every field of a finding: a dotted name is a field of the location or of
\* its span; the three metadata fields are three ways to change the dict
FindingFields ==
    { "id", "title", "severity", "confidence", "category", "message",
      "evidence", "related", "fingerprint",
      "location.module", "location.definition", "location.span",
      "span.file", "span.start_line", "span.start_col", "span.end_line",
      "span.end_col", "metadata.order", "metadata.value", "metadata.key" }

\* the findings the first argument is drawn from: with and without a span,
\* with a span of unset fields, with and without metadata
BaseFindings ==
    { Finding("R1", "LOW", "m1", Location(<<"M">>, <<"d">>, span), md, NoFingerprint) :
        span \in { None,
                   Some(SourceSpan(None, None, None, None, None)),
                   Some(SourceSpan(Some("a.daml"), Some(1), Some(2), Some(3), Some(4))) },
        md \in { <<>>, << <<"k", "v">> >>, << <<"template", "T">>, <<"choice", "C">> >> } }

Other(x) == IF x = None THEN Some(9) ELSE IF x = Some(9) THEN Some(8) ELSE None

\* the finding `f` with one field set to another value
Vary(f, field) ==
    LET sp == f.location.span
        md == f.metadata
        vspan(s) == [f EXCEPT !.location.span = Some(s)]
    IN  CASE field = "id" -> [f EXCEPT !.id = "R2"]
          [] field = "title" -> [f EXCEPT !.title = "another title"]
          [] field = "severity" -> [f EXCEPT !.severity = "HIGH"]
          [] field = "confidence" -> [f EXCEPT !.confidence = "HIGH"]
          [] field = "category" -> [f EXCEPT !.category = "lifecycle"]
          [] field = "message" -> [f EXCEPT !.message = "m2"]
          [] field = "evidence" -> [f EXCEPT !.evidence = << [kind |-> "e", note |-> "n"] >>]
          [] field = "related" -> [f EXCEPT !.related = << Location(<<"N">>, <<"e">>, None) >>]
          [] field = "fingerprint" -> [f EXCEPT !.fingerprint = PresetFingerprint("old")]
          [] field = "location.module" -> [f EXCEPT !.location.module = <<"N">>]
          [] field = "location.definition" -> [f EXCEPT !.location.definition = <<"e">>]
          [] field = "location.span" ->
                [f EXCEPT !.location.span =
                    IF sp = None THEN Some(SourceSpan(None, None, None, None, None))
                    ELSE None]
          [] field = "span.file" /\ sp # None ->
                vspan([sp[1] EXCEPT !.file = IF @ = None THEN Some("b.daml") ELSE None])
          [] field = "span.start_line" /\ sp # None ->
                vspan([sp[1] EXCEPT !.start_line = Other(@)])
          [] field = "span.start_col" /\ sp # None ->
                vspan([sp[1] EXCEPT !.start_col = Other(@)])
          [] field = "span.end_line" /\ sp # None ->
                vspan([sp[1] EXCEPT !.end_line = Other(@)])
          [] field = "span.end_col" /\ sp # None ->
                vspan([sp[1] EXCEPT !.end_col = Other(@)])
          [] field = "metadata.order" /\ Len(md) > 1 ->
                [f EXCEPT !.metadata = Tail(md) \o <<Head(md)>>]
          [] field = "metadata.value" /\ md # <<>> ->
                [f EXCEPT !.metadata = <<<<Head(md)[1], "w">>>> \o Tail(md)]
          [] field = "metadata.key" ->
                [f EXCEPT !.metadata =
                    IF \E i \in DOMAIN md : md[i][1] = "k"
                    THEN SelectSeq(md, LAMBDA it : it[1] # "k")
                    ELSE Append(md, <<"k", "v">>)]
          [] OTHER -> f

RECURSIVE VaryAll(_, _)
VaryAll(f, fields) ==
    IF fields = {} THEN f
    ELSE LET field == CHOOSE x \in fields : TRUE
         IN  VaryAll(Vary(f, field), fields \ {field})

\* the most fields in which the second finding is made to differ from the first
MaxVaried == 2

FpInit ==
    /\ \E f \in BaseFindings :
         \E fields \in SubsetsUpTo(FindingFields, MaxVaried) :
            fpFindings = <<f, VaryAll(f, fields)>>
    /\ fpValues = None
    /\ WalkIdle /\ DecodeIdle /\ LoadIdle /\ PartyIdle /\ RuleIdle /\ CliIdle /\ SupIdle /\ InferIdle /\ LowerIdle /\ ResolveIdle /\ SiteIdle

\* compute_fingerprint is called on each of the two findings
ComputeFingerprints ==
    /\ fpFindings # <<>> /\ fpValues = None
    /\ fpValues' = Some(<< compute_fingerprint(fpFindings[1]),
                            compute_fingerprint(fpFindings[2]) >>)
    /\ UNCHANGED <<fpFindings, notFpVars>>

FpNext == ComputeFingerprints

FpSpec == FpInit /\ [][FpNext]_vars

\* ------------------------------------------------------------------- C5

\* the five values the claim names, the span with its file
FingerprintFields(f) ==
    <<f.id, f.location.module, f.location.definition, f.location.span>>

\* the span without its file
SpanPlace(span) ==
    IF span = None THEN None
    ELSE Some(<<span[1].start_line, span[1].start_col, span[1].end_line, span[1].end_col>>)

SameFingerprintFields(f, g) ==
    /\ FingerprintFields(f) = FingerprintFields(g)
    /\ DictEq(f.metadata, g.metadata)

SameFingerprintFieldsButFile(f, g) ==
    /\ f.id = g.id
    /\ f.location.module = g.location.module
    /\ f.location.definition = g.location.definition
    /\ SpanPlace(f.location.span) = SpanPlace(g.location.span)
    /\ DictEq(f.metadata, g.metadata)

\* C5, as the code has it: two findings get the same fingerprint exactly when
\* their id, location.module, location.definition, metadata and the place of
\* their span (start line and column, end line and column, or no span) are
\* equal; the file of the span and every other field of the finding have no
\* part in the value.
C5_FingerprintIgnoresFile ==
    fpValues # None =>
        ( fpValues[1][1] = fpValues[1][2]
            <=> SameFingerprintFieldsButFile(fpFindings[1], fpFindings[2]) )

\* two findings that differ (in the file of the span and in the title) and
\* have been given the same fingerprint
C5_Witness ==
    /\ fpValues # None
    /\ fpFindings[1].location.span # None
    /\ fpFindings[2].location.span # None
    /\ fpFindings[1].location.span[1].file # fpFindings[2].location.span[1].file
    /\ fpFindings[1].title # fpFindings[2].title
    /\ fpValues[1][1] = fpValues[1][2]

\* C5 as stated: the fingerprints are equal exactly when id, module,
\* definition, span (file, start line/column, end line/column) and metadata
\* are equal.
C5_FingerprintInjective ==
    fpValues # None =>
        ( fpValues[1][1] = fpValues[1][2]
            <=> SameFingerprintFields(fpFindings[1], fpFindings[2]) )

\* ====================================================== the claims: walk

\* What C1 and C2 read of a hook call: the hook, the rule's place in the
\* list, and the place in the program the call was made for.
CallKey(hook, i, package_id, module_name, path, owner) ==
    <<hook, i, package_id, module_name, path, owner>>

KeyOf(ev) ==
    CallKey(ev.hook, ev.rule, ev.ctx.package_id, ev.ctx.module_name, ev.ctx.path,
            ev.owner)

ForEachRule(rs, hook, package_id, module_name, path, owner) ==
    [ i \in 1..Len(rs) |-> CallKey(hook, i, package_id, module_name, path, owner) ]

\* the order C1 states, written from the claim: a role walk stands for the
\* calls made for the root of the role expression
ExpectedOptional(rs, opt, pid, mname, path, owner) ==
    IF opt # None THEN ForEachRule(rs, "visit_expr", pid, mname, path, owner) ELSE <<>>

ExpectedChoice(rs, pid, mname, tpath, c) ==
    LET path == Append(tpath, <<"choice", c.name>>)
    IN  ForEachRule(rs, "visit_choice", pid, mname, path, "")
        \o ForEachRule(rs, "visit_expr", pid, mname, path, "choice_controllers")
        \o ExpectedOptional(rs, c.observers, pid, mname, path, "choice_observers")
        \o ExpectedOptional(rs, c.authorizers, pid, mname, path, "choice_authorizers")
        \o ForEachRule(rs, "visit_expr", pid, mname, path, "choice_update")

ExpectedTemplate(rs, pid, mname, t) ==
    LET path == << <<"template", t.name>> >>
    IN  ForEachRule(rs, "visit_template", pid, mname, path, "")
        \o ForEachRule(rs, "visit_expr", pid, mname, path, "template_signatories")
        \o ForEachRule(rs, "visit_expr", pid, mname, path, "template_observers")
        \o ExpectedOptional(rs, t.precond, pid, mname, path, "template_precond")
        \o ExpectedOptional(rs, t.key, pid, mname, path, "template_key_body")
        \o ExpectedOptional(rs, t.key, pid, mname, path, "template_key_maintainers")
        \o Concat([ k \in 1..Len(t.choices) |->
                      ExpectedChoice(rs, pid, mname, path, t.choices[k]) ])

ExpectedModule(rs, pid, m) ==
    ForEachRule(rs, "visit_module", pid, m.name, <<>>, "")
    \o Concat([ j \in 1..Len(m.templates) |->
                  ExpectedTemplate(rs, pid, m.name, m.templates[j]) ])
    \o Concat([ v \in 1..Len(m.values) |->
                  ForEachRule(rs, "visit_expr", pid, m.name,
                              << <<"value", m.values[v].name>> >>, "value_body") ])

ExpectedPackage(rs, p) ==
    ForEachRule(rs, "visit_package", p.package_id, <<>>, <<>>, "")
    \o Concat([ m \in 1..Len(p.modules) |->
                  ExpectedModule(rs, p.package_id, p.modules[m]) ])

ExpectedOrder(prog, rs) ==
    Concat([ p \in 1..Len(prog.packages) |-> ExpectedPackage(rs, prog.packages[p]) ])

RECURSIVE SelectKeys(_)
SelectKeys(evs) ==
    IF evs = <<>> THEN <<>>
    ELSE IF Head(evs).hook # "visit_expr" \/ Head(evs).epath = <<>>
         THEN <<KeyOf(Head(evs))>> \o SelectKeys(Tail(evs))
         ELSE SelectKeys(Tail(evs))

\* C1: the hook calls run makes are, at every moment, the first calls of the
\* order the claim states (packages, then per module its templates - each
\* visit_template, its role walks, then its choices with their role walks -
\* and only then the module's value bodies), and all of them once run returns.
C1_HookOrder ==
    /\ IsPrefix(SelectKeys(log), ExpectedOrder(program, rules))
    /\ (pc = "returned" => SelectKeys(log) = ExpectedOrder(program, rules))

\* a finished run over two rules, with a template that has a precond, a key
\* and a choice, in a module that has a value
C1_Witness ==
    /\ pc = "returned"
    /\ Len(rules) = 2
    /\ \E p \in 1..Len(program.packages) :
         \E m \in 1..Len(program.packages[p].modules) :
           LET mod == program.packages[p].modules[m]
           IN  /\ mod.values # <<>>
               /\ \E j \in 1..Len(mod.templates) :
                    /\ mod.templates[j].precond # None
                    /\ mod.templates[j].key # None
                    /\ mod.templates[j].choices # <<>>

\* the nodes reachable through children, each named by its child numbers
RECURSIVE NodePaths(_, _)
NodePaths(expr, at) ==
    {at} \cup UNION { NodePaths(expr.children[i], Append(at, i)) :
                        i \in 1..Len(expr.children) }

\* the role expressions of a program: where each is (package, module, path
\* of the context), the owner tag of its role, and the expression
RoleSite(pid, mname, path, owner, expr) ==
    [ package_id |-> pid, module_name |-> mname, path |-> path, owner |-> owner,
      expr |-> expr ]

OptionalSite(pid, mname, path, owner, opt) ==
    IF opt # None THEN { RoleSite(pid, mname, path, owner, opt[1]) } ELSE {}

ChoiceSites(pid, mname, tpath, c) ==
    LET path == Append(tpath, <<"choice", c.name>>)
    IN  { RoleSite(pid, mname, path, "choice_controllers", c.controllers),
          RoleSite(pid, mname, path, "choice_update", c.update) }
        \cup OptionalSite(pid, mname, path, "choice_observers", c.observers)
        \cup OptionalSite(pid, mname, path, "choice_authorizers", c.authorizers)

TemplateSites(pid, mname, t) ==
    LET path == << <<"template", t.name>> >>
    IN  { RoleSite(pid, mname, path, "template_signatories", t.signatories),
          RoleSite(pid, mname, path, "template_observers", t.observers) }
        \cup OptionalSite(pid, mname, path, "template_precond", t.precond)
        \cup (IF t.key # None
              THEN { RoleSite(pid, mname, path, "template_key_body", t.key[1].body),
                     RoleSite(pid, mname, path, "template_key_maintainers",
                              t.key[1].maintainers) }
              ELSE {})
        \cup UNION { ChoiceSites(pid, mname, path, t.choices[k]) :
                       k \in 1..Len(t.choices) }

ModuleSites(pid, m) ==
    UNION { TemplateSites(pid, m.name, m.templates[j]) : j \in 1..Len(m.templates) }
    \cup { RoleSite(pid, m.name, << <<"value", m.values[v].name>> >>, "value_body",
                    m.values[v].body) : v \in 1..Len(m.values) }

RoleSites(prog) ==
    UNION { UNION { ModuleSites(prog.packages[p].package_id,
                                prog.packages[p].modules[m]) :
                      m \in 1..Len(prog.packages[p].modules) } :
              p \in 1..Len(prog.packages) }

\* every node of every role expression
RoleNodes(prog) ==
    UNION { { <<site, at>> : at \in NodePaths(site.expr, <<>>) } :
              site \in RoleSites(prog) }

\* a is before b in pre-order, children left to right: a is a proper prefix
\* of b, or at the first place they differ a takes the earlier child
RECURSIVE PreOrderBefore(_, _)
PreOrderBefore(a, b) ==
    IF a = <<>> THEN b # <<>>
    ELSE IF b = <<>> THEN FALSE
    ELSE IF Head(a) = Head(b) THEN PreOrderBefore(Tail(a), Tail(b))
    ELSE Head(a) < Head(b)

\* the visit_expr calls made for a role expression, in call order
ExprCalls(site) ==
    SelectSeq(log, LAMBDA ev :
        /\ ev.hook = "visit_expr"
        /\ ev.owner = site.owner
        /\ ev.ctx.package_id = site.package_id
        /\ ev.ctx.module_name = site.module_name
        /\ ev.ctx.path = site.path)

\* C2: when run returns, every rule's visit_expr has been called exactly once
\* for every node under every role expression, with the owner tag of the
\* role (and for nothing else), and the calls for a node come before the
\* calls for the nodes that follow it in pre-order, its descendants first of
\* all; the rules are called in list order for a node.
C2_VisitExprOncePreOrder ==
    pc = "returned" =>
        LET sites == RoleSites(program)
        IN  /\ \A site \in sites :
                 LET paths == NodePaths(site.expr, <<>>)
                     calls == ExprCalls(site)
                 IN  /\ Len(calls) = Len(rules) * Cardinality(paths)
                     /\ { <<calls[n].rule, calls[n].epath>> : n \in DOMAIN calls }
                          = (DOMAIN rules) \X paths
                     /\ \A n \in 1..(Len(calls) - 1) :
                          \/ /\ calls[n].epath = calls[n + 1].epath
                             /\ calls[n].rule < calls[n + 1].rule
                          \/ PreOrderBefore(calls[n].epath, calls[n + 1].epath)
            /\ Cardinality({ n \in DOMAIN log : log[n].hook = "visit_expr" })
                 = Len(rules) * Cardinality(RoleNodes(program))

\* a finished run of two rules over a role expression that has a grandchild
\* and two children
C2_Witness ==
    /\ pc = "returned"
    /\ Len(rules) = 2
    /\ \E site \in RoleSites(program) :
         /\ <<1, 1>> \in NodePaths(site.expr, <<>>)
         /\ <<2>> \in NodePaths(site.expr, <<>>)
         /\ \E n \in DOMAIN log : log[n].epath = <<1, 1>> /\ log[n].rule = 2

\* C3, as the claim states it: a hook that raises does not end run by the
\* exception.
C3_HookFailureSwallowed ==
    (\E n \in DOMAIN log : log[n].raised) => pc # "raised"

\* the findings the hooks emitted, in the order of the hook calls
RECURSIVE EmittedIn(_)
EmittedIn(evs) ==
    IF evs = <<>> THEN <<>> ELSE Head(evs).emitted \o EmittedIn(Tail(evs))

\* C4: what run returns is the list of the emitted findings in emission
\* order, one for one: a finding that carries a fingerprint (a non-empty
\* text) is returned as it is, any other with fingerprint =
\* compute_fingerprint(finding) and nothing else changed; every returned
\* finding carries a fingerprint.
C4_FinalizedFindings ==
    pc = "returned" =>
        LET emitted == EmittedIn(log)
        IN  /\ Len(finalized) = Len(emitted)
            /\ \A n \in DOMAIN emitted :
                 /\ emitted[n].fingerprint.kind = "preset" => finalized[n] = emitted[n]
                 /\ emitted[n].fingerprint.kind \in {"none", "empty"} =>
                      /\ finalized[n].fingerprint = compute_fingerprint(emitted[n])
                      /\ [finalized[n] EXCEPT !.fingerprint = emitted[n].fingerprint]
                           = emitted[n]
                 /\ finalized[n].fingerprint.kind \in {"preset", "sha256"}

\* a run that returned findings emitted with a fingerprint, with none and
\* with an empty one, by two rules
C4_Witness ==
    /\ pc = "returned"
    /\ \E a, b, c \in DOMAIN log :
         /\ a < b
         /\ log[a].rule # log[b].rule
         /\ \E n \in DOMAIN log[a].emitted : log[a].emitted[n].fingerprint.kind = "none"
         /\ \E n \in DOMAIN log[b].emitted : log[b].emitted[n].fingerprint.kind = "preset"
         /\ \E n \in DOMAIN log[c].emitted : log[c].emitted[n].fingerprint.kind = "empty"

\* ====================================================== lf/limits.py

\* limits(): the limits in force.  Every one of them can be set from the
\* environment to any positive number; sizes are counted in units in which
\* these are the limits.
limits ==
    [ max_dar_bytes              |-> 4,
      max_dar_uncompressed_bytes |-> 6,
      max_dar_entries            |-> 2,
      max_dalf_bytes             |-> 3,
      max_archive_payload_bytes  |-> 2,
      max_package_bytes          |-> 1,
      max_proto_depth            |-> 2,
      max_proto_nodes            |-> 3 ]

\* ====================================================== lf/compat.py

\* what a call gives back: a value, or an exception of some type
Ok(value) == [ok |-> TRUE, value |-> value]
Err(type, msg) == [ok |-> FALSE, error |-> [type |-> type, msg |-> msg]]

\* A text is a sequence of tokens: <<"int", n>> is a run of digits that int()
\* reads as n, <<"dot", 0>> is ".", <<"junk", 0>> is anything else.
Digits(n) == <<"int", n>>
Dot == <<"dot", 0>>
Junk == <<"junk", 0>>

\* minor_str.split(".")
RECURSIVE Split(_, _, _)
Split(text, part, parts) ==
    IF text = <<>> THEN Append(parts, part)
    ELSE IF Head(text) = Dot THEN Split(Tail(text), <<>>, Append(parts, part))
    ELSE Split(Tail(text), Append(part, Head(text)), parts)

\* int(part)
ParseInt(part) ==
    IF Len(part) = 1 /\ part[1][1] = "int" THEN Ok(part[1][2])
    ELSE Err("ValueError", "invalid literal for int()")

LfVersion(major, minor, patch) == [major |-> major, minor |-> minor, patch |-> patch]

\* LfVersion.short(): the text "major.minor"
short(version) == <<version.major, version.minor>>

SUPPORTED_VERSIONS ==
    { <<1, 6>>, <<1, 7>>, <<1, 8>>, <<1, 11>>, <<1, 14>>, <<1, 15>>, <<1, 17>>, <<2, 1>> }

normalize_version(major, minor_str, patch) ==
    IF minor_str = <<>> THEN Err("ValueError", "Missing Daml-LF minor version")
    ELSE LET parts == Split(minor_str, <<>>, <<>>)
         IN  IF Len(parts) = 1
             THEN LET minor == ParseInt(parts[1])
                  IN  IF minor.ok THEN Ok(LfVersion(major, minor.value, patch)) ELSE minor
             ELSE IF Len(parts) = 2
             THEN LET major_part == ParseInt(parts[1])
                      minor == ParseInt(parts[2])
                  IN  IF ~major_part.ok THEN major_part
                      ELSE IF ~minor.ok THEN minor
                      ELSE IF major_part.value # major
                      THEN Err("ValueError", "Version major mismatch")
                      ELSE Ok(LfVersion(major, minor.value, patch))
             ELSE Err("ValueError", "Unrecognized Daml-LF version format")

\* a check that takes every version for supported
is_supported_Any(version) == TRUE

is_supported(version) == short(version) \in SUPPORTED_VERSIONS

\* ====================================================== lf/decoder.py

\* hashlib.sha256(data).hexdigest(): SHA-256 is taken to be one-to-one, the
\* digest of some bytes is modelled by the bytes
sha256_hex(data) == <<"sha256 of", data>>

\* A parsed package message is a record
\*   tree                   the package message: a message is the sequence of
\*                          its set fields (ListFields), a field a record
\*                          [type, label, messages, scalars]: the messages
\*                          of its value (one when the field is singular)
\*                          or the scalars of its value
\*   interned_strings       a sequence of texts
\*   interned_dotted_names  a sequence of sequences of string indices (int32)
\*   metadata               None, or [name_interned_str, version_interned_str]
\*   lowerable              whether ir/lower.py lowers its modules without raising

\* the fields of a message: one sub-message, repeated sub-messages, a scalar,
\* repeated scalars
MessageField(msg) ==
    [type |-> "TYPE_MESSAGE", label |-> "LABEL_OPTIONAL", messages |-> <<msg>>, scalars |-> <<>>]

RepeatedField(msgs) ==
    [type |-> "TYPE_MESSAGE", label |-> "LABEL_REPEATED", messages |-> msgs, scalars |-> <<>>]

ScalarField(n) ==
    [type |-> "TYPE_INT32", label |-> "LABEL_OPTIONAL", messages |-> <<>>, scalars |-> <<n>>]

RepeatedScalarField(ns) ==
    [type |-> "TYPE_INT32", label |-> "LABEL_REPEATED", messages |-> <<>>, scalars |-> ns]

\* a loop that passes over the repeated fields
sub_messages_Singular(current) ==
    Concat([ i \in 1..Len(current) |->
               IF current[i].type = "TYPE_MESSAGE" /\ current[i].label # "LABEL_REPEATED"
               THEN <<current[i].messages[1]>> ELSE <<>> ])

\* what the loop over current.ListFields() appends to the stack, in its order
sub_messages(current) ==
    Concat([ i \in 1..Len(current) |->
               IF current[i].type # "TYPE_MESSAGE" THEN <<>>
               ELSE IF current[i].label = "LABEL_REPEATED" THEN current[i].messages
               ELSE <<current[i].messages[1]>> ])

\* a traversal that finds every package within the limits
enforce_proto_limits_Unchecked(stack, seen, max_depth, max_nodes) == Ok(seen)

\* _enforce_proto_limits: the stack holds <<message, depth>> pairs, the last
\* one is popped first
RECURSIVE enforce_proto_limits(_, _, _, _)
enforce_proto_limits(stack, seen, max_depth, max_nodes) ==
    IF stack = <<>> THEN Ok(seen)
    ELSE LET current == stack[Len(stack)][1]
             depth == stack[Len(stack)][2]
             rest == SubSeq(stack, 1, Len(stack) - 1)
         IN  IF seen + 1 > max_nodes
             THEN Err("ProtoDecodeError", "exceeds max node count")
             ELSE IF depth > max_depth
             THEN Err("ProtoDecodeError", "exceeds max depth")
             ELSE enforce_proto_limits(
                      rest \o [i \in 1..Len(sub_messages(current)) |->
                                  <<sub_messages(current)[i], depth + 1>>],
                      seen + 1, max_depth, max_nodes)

\* strings[i] of a Python list, i counted from 0, a negative i from the end
Subscript(strings, i) ==
    IF 0 <= i /\ i < Len(strings) THEN Ok(strings[i + 1])
    ELSE IF i < 0 /\ -i <= Len(strings) THEN Ok(strings[Len(strings) + i + 1])
    ELSE Err("IndexError", "list index out of range")

\* [strings[i] for i in dotted.segments_interned_str if i < len(strings)]
RECURSIVE Segments(_, _, _)
Segments(strings, indices, acc) ==
    IF indices = <<>> THEN Ok(acc)
    ELSE IF Head(indices) < Len(strings)
    THEN LET s == Subscript(strings, Head(indices))
         IN  IF s.ok THEN Segments(strings, Tail(indices), Append(acc, s.value)) ELSE s
    ELSE Segments(strings, Tail(indices), acc)

RECURSIVE DottedNames(_, _, _)
DottedNames(strings, dotted, acc) ==
    IF dotted = <<>> THEN Ok(acc)
    ELSE LET segments == Segments(strings, Head(dotted), <<>>)
         IN  IF segments.ok
             THEN DottedNames(strings, Tail(dotted), Append(acc, segments.value))
             ELSE segments

extract_interned_tables(major, pkg) ==
    LET strings == pkg.interned_strings
        dotted_names == DottedNames(strings, pkg.interned_dotted_names, <<>>)
    IN  IF dotted_names.ok
        THEN Ok([strings |-> strings, dotted_names |-> dotted_names.value])
        ELSE dotted_names

\* the text "", and the <<name, version>> that _extract_metadata returns
EmptyText == <<>>

extract_metadata(major, pkg, interned) ==
    IF pkg.metadata = None THEN <<EmptyText, EmptyText>>
    ELSE LET at(idx) == IF 0 <= idx /\ idx < Len(interned.strings)
                        THEN interned.strings[idx + 1] ELSE EmptyText
         IN  << at(pkg.metadata[1].name_interned_str),
                at(pkg.metadata[1].version_interned_str) >>

\* _decode_lf1_package and _decode_lf2_package: package bytes are a record
\* [len, lf1, lf2] where lf1 and lf2 are what the two schemas parse them to,
\* None when the parse fails
decode_lf1_package(raw) ==
    IF raw.lf1 = None THEN Err("ProtoDecodeError", "LF1 Package decode failed")
    ELSE Ok(raw.lf1[1])

decode_lf2_package(raw) ==
    IF raw.lf2 = None THEN Err("ProtoDecodeError", "LF2 Package decode failed")
    ELSE Ok(raw.lf2[1])

\* a fallback that takes every package the v2 schema parses
decode_lf1_fallback_AnyName(raw, err) ==
    LET lf2_pkg == decode_lf2_package(raw)
    IN  IF ~lf2_pkg.ok THEN err
        ELSE Ok(<<lf2_pkg.value, LfVersion(2, 1, None), 2>>)

\* _decode_lf1_fallback_as_lf2(raw, err): <<lf2_pkg, version, 2>>, or err
\* raised again; an IndexError of _extract_interned_tables passes through
decode_lf1_fallback_as_lf2(raw, err) ==
    LET lf2_pkg == decode_lf2_package(raw)
    IN  IF ~lf2_pkg.ok THEN err
        ELSE LET interned == extract_interned_tables(2, lf2_pkg.value)
             IN  IF ~interned.ok THEN interned
                 ELSE IF extract_metadata(2, lf2_pkg.value, interned.value)[1] # <<"daml-prim">>
                 THEN err
                 ELSE LET version == normalize_version(2, <<Digits(1)>>, None)
                      IN  Ok(<<lf2_pkg.value, version.value, 2>>)

LfPackage(package_id, meta, lf_version, lf_pkg, interned, entry, payload_bytes, package_bytes) ==
    [ package_id      |-> package_id,
      name            |-> meta[1],
      version         |-> meta[2],
      lf_version      |-> short(lf_version),
      lf_major        |-> lf_version.major,
      lf_minor        |-> lf_version.minor,
      lf_patch        |-> lf_version.patch,
      archive_payload |-> payload_bytes,
      package_bytes   |-> package_bytes,
      dalf_path       |-> entry.path,
      lf_package      |-> lf_pkg,
      interned        |-> interned ]

\* a decoder that lets every declared hash pass
hash_mismatch_Never(archive, payload_bytes) == FALSE

\* the envelope declares a hash and it is not the computed one
hash_mismatch(archive, payload_bytes) ==
    archive.hash # EmptyText /\ sha256_hex(payload_bytes) # archive.hash

\* archive.hash or _sha256_hex(payload_bytes)
package_id_of(archive, payload_bytes) ==
    IF archive.hash # EmptyText THEN archive.hash ELSE sha256_hex(payload_bytes)

\* decode_dalf from the parse of the package bytes on
decode_package(entry, archive, payload_bytes, package_bytes, lf_major, version0) ==
    LET parsed ==
            IF lf_major = 1
            THEN LET lf1 == decode_lf1_package(package_bytes)
                 IN  IF lf1.ok THEN Ok(<<lf1.value, version0, lf_major>>)
                     ELSE decode_lf1_fallback_as_lf2(package_bytes, lf1)
            ELSE LET lf2 == decode_lf2_package(package_bytes)
                 IN  IF lf2.ok THEN Ok(<<lf2.value, version0, lf_major>>) ELSE lf2
    IN  IF ~parsed.ok THEN parsed
        ELSE LET lf_pkg == parsed.value[1]
                 version == parsed.value[2]
                 major == parsed.value[3]
                 within == enforce_proto_limits(<< <<lf_pkg.tree, 1>> >>, 0,
                                                limits.max_proto_depth,
                                                limits.max_proto_nodes)
                 interned == extract_interned_tables(major, lf_pkg)
             IN  IF ~is_supported(version)
                 THEN Err("ProtoDecodeError", "Unsupported Daml-LF version")
                 ELSE IF ~within.ok THEN within
                 ELSE IF ~interned.ok THEN interned
                 ELSE LET meta == extract_metadata(major, lf_pkg, interned.value)
                      IN  Ok(LfPackage(
                              package_id_of(archive, payload_bytes),
                              meta, version, lf_pkg, interned.value,
                              entry, payload_bytes, package_bytes))

\* decode_dalf(entry).  entry.raw is a record [len, archive]: its length and
\* what the Archive schema parses it to (None when the parse fails); the
\* archive is [hash_function, hash, payload], its payload a record
\* [len, content, message], the message [which, package_bytes, minor, patch].
decode_dalf(entry) ==
    IF entry.raw.len > limits.max_dalf_bytes
    THEN Err("ProtoDecodeError", "Archive size exceeds max")
    ELSE IF entry.raw.archive = None
    THEN Err("ProtoDecodeError", "Archive decode failed")
    ELSE LET archive == entry.raw.archive[1]
             payload_bytes == archive.payload
         IN  IF archive.hash_function # "SHA256"
             THEN Err("ProtoDecodeError", "Unsupported hash function in archive")
             ELSE IF payload_bytes.len = 0
             THEN Err("ProtoDecodeError", "Archive payload missing")
             ELSE IF payload_bytes.len > limits.max_archive_payload_bytes
             THEN Err("ProtoDecodeError", "Archive payload size exceeds max")
             ELSE IF hash_mismatch(archive, payload_bytes)
             THEN Err("ProtoDecodeError", "Archive payload hash mismatch")
             ELSE IF payload_bytes.message = None
             THEN Err("ProtoDecodeError", "ArchivePayload decode failed")
             ELSE LET payload == payload_bytes.message[1]
                      which == payload.which
                      lf_major == IF which = "daml_lf_1" THEN 1 ELSE 2
                      package_bytes == payload.package_bytes
                      version == normalize_version(lf_major, payload.minor, payload.patch)
                  IN  IF which \notin {"daml_lf_1", "daml_lf_2"}
                      THEN Err("ProtoDecodeError", "Unsupported ArchivePayload variant")
                      ELSE IF package_bytes.len = 0
                      THEN Err("ProtoDecodeError", "ArchivePayload missing Daml-LF package bytes")
                      ELSE IF package_bytes.len > limits.max_package_bytes
                      THEN Err("ProtoDecodeError", "Package size exceeds max")
                      ELSE IF ~version.ok
                      THEN Err("ProtoDecodeError", version.error.msg)
                      ELSE decode_package(entry, archive, payload_bytes, package_bytes,
                                          lf_major, version.value)

\* ------------------------------------------------ the .dalf entries decoded

ParsedPackage(tree, strings, dotted, metadata, lowerable) ==
    [ tree |-> tree, interned_strings |-> strings, interned_dotted_names |-> dotted,
      metadata |-> metadata, lowerable |-> lowerable ]

DalfEntry(path, raw) == [path |-> path, raw |-> raw]

\* What an entry is built from, one field for each thing decode_dalf looks at.
\* The package bytes are inside the payload bytes and these inside the raw
\* bytes; the two schemas parse the package bytes to the same content when
\* they parse them.
GoodPlan ==
    [ path |-> <<"a", ".dalf">>, raw_len |-> 3, archive_parses |-> TRUE,
      hash_function |-> "SHA256", hash |-> "lower",
      payload_len |-> 2, content |-> 1, payload_parses |-> TRUE,
      which |-> "daml_lf_2", pkg_len |-> 1, minor |-> <<Digits(1)>>, patch |-> Some(0),
      lf1_parses |-> FALSE, lf2_parses |-> TRUE,
      tree |-> << MessageField(<<>>) >>,
      strings |-> << <<"my-package">>, <<"1.0.0">>, <<"Main">> >>,
      dotted |-> << <<2>> >>,
      metadata |-> Some([name_interned_str |-> 0, version_interned_str |-> 1]),
      lowerable |-> TRUE ]

BasePlans ==
    { GoodPlan,
      [GoodPlan EXCEPT !.which = "daml_lf_1", !.minor = <<Digits(14)>>, !.hash = "none",
                       !.lf1_parses = TRUE, !.lf2_parses = FALSE, !.content = 2],
      \* the shipping quirk: labelled v1, a v2 package named daml-prim
      [GoodPlan EXCEPT !.which = "daml_lf_1", !.minor = <<Digits(14)>>, !.content = 3,
                       !.strings = << <<"daml-prim">>, <<"0.0.0">>, <<"GHC">> >>] }

Deviations ==
    { "raw_len_over", "archive_unparsable", "hash_function_other",
      "hash_none", "hash_lower", "hash_upper", "hash_wrong",
      "payload_empty", "payload_len_over", "payload_unparsable",
      "which_none", "which_lf1", "which_lf2", "pkg_empty", "pkg_len_over",
      "minor_empty", "minor_junk", "minor_1_14", "minor_2_1", "minor_1_2_3", "minor_5",
      "lf1_parses", "lf1_fails", "lf2_parses", "lf2_fails",
      "tree_deep", "tree_wide", "tree_root", "tree_full", "tree_full_scalars",
      "tree_scalars", "tree_deep_scalar", "name_prim", "name_other", "no_metadata",
      "name_index_negative", "dotted_wraps", "dotted_index_error", "dotted_skipped",
      "unlowerable", "path_b" }

Deviate(plan, d) ==
    CASE d = "raw_len_over" -> [plan EXCEPT !.raw_len = limits.max_dalf_bytes + 1]
      [] d = "archive_unparsable" -> [plan EXCEPT !.archive_parses = FALSE]
      [] d = "hash_function_other" -> [plan EXCEPT !.hash_function = "OTHER"]
      [] d = "hash_none" -> [plan EXCEPT !.hash = "none"]
      [] d = "hash_lower" -> [plan EXCEPT !.hash = "lower"]
      [] d = "hash_upper" -> [plan EXCEPT !.hash = "upper"]
      [] d = "hash_wrong" -> [plan EXCEPT !.hash = "wrong"]
      [] d = "payload_empty" -> [plan EXCEPT !.payload_len = 0]
      [] d = "payload_len_over" ->
            [plan EXCEPT !.payload_len = limits.max_archive_payload_bytes + 1]
      [] d = "payload_unparsable" -> [plan EXCEPT !.payload_parses = FALSE]
      [] d = "which_none" -> [plan EXCEPT !.which = "none"]
      [] d = "which_lf1" -> [plan EXCEPT !.which = "daml_lf_1"]
      [] d = "which_lf2" -> [plan EXCEPT !.which = "daml_lf_2"]
      [] d = "pkg_empty" -> [plan EXCEPT !.pkg_len = 0]
      [] d = "pkg_len_over" -> [plan EXCEPT !.pkg_len = limits.max_package_bytes + 1]
      [] d = "minor_empty" -> [plan EXCEPT !.minor = <<>>]
      [] d = "minor_junk" -> [plan EXCEPT !.minor = <<Junk>>]
      [] d = "minor_1_14" -> [plan EXCEPT !.minor = <<Digits(1), Dot, Digits(14)>>]
      [] d = "minor_2_1" -> [plan EXCEPT !.minor = <<Digits(2), Dot, Digits(1)>>]
      [] d = "minor_1_2_3" ->
            [plan EXCEPT !.minor = <<Digits(1), Dot, Digits(2), Dot, Digits(3)>>]
      [] d = "minor_5" -> [plan EXCEPT !.minor = <<Digits(5)>>]
      [] d = "lf1_parses" -> [plan EXCEPT !.lf1_parses = TRUE]
      [] d = "lf1_fails" -> [plan EXCEPT !.lf1_parses = FALSE]
      [] d = "lf2_parses" -> [plan EXCEPT !.lf2_parses = TRUE]
      [] d = "lf2_fails" -> [plan EXCEPT !.lf2_parses = FALSE]
      [] d = "tree_deep" ->
            [plan EXCEPT !.tree = << MessageField(<< MessageField(<<>>) >>) >>]
      [] d = "tree_wide" ->
            [plan EXCEPT !.tree = << RepeatedField(<< <<>>, <<>>, <<>> >>) >>]
      [] d = "tree_root" -> [plan EXCEPT !.tree = <<>>]
      [] d = "tree_full" ->
            [plan EXCEPT !.tree = << MessageField(<<>>), RepeatedField(<< <<>> >>) >>]
      [] d = "tree_full_scalars" ->
            [plan EXCEPT !.tree =
                << ScalarField(1), MessageField(<< ScalarField(2) >>),
                   RepeatedScalarField(<<3, 4, 5>>),
                   RepeatedField(<< << RepeatedScalarField(<<6, 7>>) >> >>) >>]
      [] d = "tree_scalars" ->
            [plan EXCEPT !.tree =
                << ScalarField(1), ScalarField(2), ScalarField(3),
                   RepeatedScalarField(<<4, 5, 6, 7>>) >>]
      [] d = "tree_deep_scalar" ->
            [plan EXCEPT !.tree =
                << MessageField(<< MessageField(<< ScalarField(1) >>) >>) >>]
      [] d = "name_prim" -> [plan EXCEPT !.strings[1] = <<"daml-prim">>]
      [] d = "name_other" -> [plan EXCEPT !.strings[1] = <<"daml-stdlib">>]
      [] d = "no_metadata" -> [plan EXCEPT !.metadata = None]
      [] d = "name_index_negative" /\ plan.metadata # None ->
            [plan EXCEPT !.metadata[1].name_interned_str = -1]
      [] d = "dotted_wraps" -> [plan EXCEPT !.dotted = << <<0, -1>> >>]
      [] d = "dotted_index_error" -> [plan EXCEPT !.dotted = << <<0>>, <<-4>> >>]
      [] d = "dotted_skipped" -> [plan EXCEPT !.dotted = << <<3, 0>> >>]
      [] d = "unlowerable" -> [plan EXCEPT !.lowerable = FALSE]
      [] d = "path_b" -> [plan EXCEPT !.path = <<"b", ".dalf">>]
      [] OTHER -> plan

RECURSIVE DeviateAll(_, _)
DeviateAll(plan, ds) ==
    IF ds = {} THEN plan
    ELSE LET d == CHOOSE x \in ds : TRUE
         IN  DeviateAll(Deviate(plan, d), ds \ {d})

\* the payload bytes of a plan
PayloadOf(plan) ==
    LET pkg == ParsedPackage(plan.tree, plan.strings, plan.dotted, plan.metadata,
                             plan.lowerable)
        package_bytes == [ len |-> plan.pkg_len,
                           lf1 |-> Opt(plan.lf1_parses, pkg),
                           lf2 |-> Opt(plan.lf2_parses, pkg) ]
    IN  [ len |-> plan.payload_len,
          content |-> plan.content,
          message |-> Opt(plan.payload_parses,
                          [ which |-> plan.which, package_bytes |-> package_bytes,
                            minor |-> plan.minor, patch |-> plan.patch ]) ]

\* the entry of a plan
Build(plan) ==
    LET payload_bytes == PayloadOf(plan)
        hash == CASE plan.hash = "none" -> EmptyText
                  [] plan.hash = "lower" -> sha256_hex(payload_bytes)
                  [] plan.hash = "upper" -> <<"SHA256 OF", payload_bytes>>
                  [] OTHER -> sha256_hex([payload_bytes EXCEPT !.content = 0])
    IN  DalfEntry(plan.path,
                  [ len |-> plan.raw_len,
                    archive |-> Opt(plan.archive_parses,
                                    [ hash_function |-> plan.hash_function,
                                      hash |-> hash,
                                      payload |-> payload_bytes ]) ])

\* the most deviations an entry has from a base plan
MaxDeviations == 2

DalfPlans ==
    { DeviateAll(plan, ds) :
        plan \in BasePlans,
        ds \in SubsetsUpTo(Deviations, MaxDeviations) }

\* =========================================================== decode_dalf alone

DecodeInit ==
    /\ \E plan \in DalfPlans : dalf = Some(Build(plan))
    /\ decoded = None
    /\ WalkIdle /\ FpIdle /\ LoadIdle /\ PartyIdle /\ RuleIdle /\ CliIdle /\ SupIdle /\ InferIdle /\ LowerIdle /\ ResolveIdle /\ SiteIdle

\* decode_dalf(entry)
Decode ==
    /\ dalf # None /\ decoded = None
    /\ decoded' = Some(decode_dalf(dalf[1]))
    /\ UNCHANGED <<dalf, notDecodeVars>>

DecodeNext == Decode

DecodeSpec == DecodeInit /\ [][DecodeNext]_vars

\* ====================================================== lf/archive.py

\* A zip entry: its name (a sequence of text pieces, the last one the
\* extension), the uncompressed size its header declares, and the bytes that
\* reading it gives.
ZipInfo(filename, file_size, data) ==
    [filename |-> filename, file_size |-> file_size, data |-> data]

\* info.filename.endswith(".dalf")
EndsWithDalf(filename) == filename # <<>> /\ filename[Len(filename)] = ".dalf"

Min(a, b) == IF a <= b THEN a ELSE b

\* a read that hands out the data whatever its length
read_zip_unlimited(info, limit) == Ok(info.data)

\* _read_zip_limited: fp.read(limit + 1) gives at most limit + 1 bytes
read_zip_limited(info, limit) ==
    IF Min(info.data.len, limit + 1) > limit
    THEN Err("ValueError", "Entry exceeds max size")
    ELSE Ok(info.data)

\* One turn of `for info in infos`, for the i-th entry with the running total
\* `total`: the new total, the checks made, in order, and what came of it:
\* an entry to append, None (the entry is skipped) or an error.
scan_info(info, i, total) ==
    LET new_total == total + info.file_size
        cumulative == <<"cumulative", i, new_total>>
        entry_size == <<"entry_size", i, info.file_size>>
        bounded_read == <<"read", i, limits.max_dalf_bytes + 1>>
        raw == read_zip_limited(info, limits.max_dalf_bytes)
        turn(made, result) == [total |-> new_total, checks |-> made, result |-> result]
    IN  IF new_total > limits.max_dar_uncompressed_bytes
        THEN turn(<<cumulative>>, Err("ValueError", "DAR uncompressed size exceeds max"))
        ELSE IF ~EndsWithDalf(info.filename)
        THEN turn(<<cumulative>>, Ok(None))
        ELSE IF info.file_size > limits.max_dalf_bytes
        THEN turn(<<cumulative, entry_size>>, Err("ValueError", "DALF entry size exceeds max"))
        ELSE IF ~raw.ok
        THEN turn(<<cumulative, entry_size, bounded_read>>, raw)
        ELSE turn(<<cumulative, entry_size, bounded_read>>,
                  Ok(Some(DalfEntry(info.filename, raw.value))))

\* ====================================================== ir/lower.py

\* the Package that lower_packages makes of a decoded package; the lowering
\* of its modules is not looked into
IrPackage(pkg) ==
    [ package_id |-> pkg.package_id, name |-> pkg.name, version |-> pkg.version,
      modules |-> <<>>, lf_ref |-> Some(<<"pkg:", pkg.package_id>>) ]

RECURSIVE lower_each(_, _)
lower_each(pkgs, ir_packages) ==
    IF pkgs = <<>> THEN Ok([packages |-> ir_packages])
    ELSE IF Head(pkgs).lf_major \notin {1, 2}
    THEN Err("LoweringError", "Unsupported LF major")
    ELSE IF ~Head(pkgs).lf_package.lowerable
    THEN Err("LoweringError", "lowering failed")
    ELSE lower_each(Tail(pkgs), Append(ir_packages, IrPackage(Head(pkgs))))

lower_packages(pkgs) == lower_each(pkgs, <<>>)

\* ====================================================== lf/loader.py

\* the deviations that the entries of a container are made with, one each
LoadDeviations ==
    { "path_b", "payload_len_over", "pkg_len_over", "tree_deep", "tree_wide",
      "archive_unparsable", "unlowerable" }

\* the entries of the containers: payload entries whose header declares the
\* length of their data, one whose data is too long and whose header says
\* so, one whose header hides it, and entries that are no payload
ZipInfos ==
    { ZipInfo(plan.path, plan.raw_len, Build(plan).raw) :
        plan \in BasePlans \cup { Deviate(GoodPlan, d) : d \in LoadDeviations } }
    \cup
    { ZipInfo(<<"big", ".dalf">>, size, Build(Deviate(GoodPlan, "raw_len_over")).raw) :
        size \in {limits.max_dalf_bytes, limits.max_dalf_bytes + 1} }
    \cup
    { ZipInfo(<<"META-INF/MANIFEST", ".MF">>, size, [len |-> size, archive |-> None]) :
        size \in {1, limits.max_dalf_bytes + 1} }

\* the most entries a container has
MaxDarEntries == 3

Dars ==
    { [size |-> size, infos |-> infos] :
        size \in {limits.max_dar_bytes, limits.max_dar_bytes + 1},
        infos \in UNION { [1..n -> ZipInfos] : n \in 0..MaxDarEntries } }

LoadInit ==
    /\ dar \in Dars
    /\ lpc = "stat"
    /\ scanned = 0 /\ total_uncompressed = 0 /\ entries = <<>> /\ checks = <<>>
    /\ packages = <<>> /\ loaded = None /\ load_error = None
    /\ WalkIdle /\ FpIdle /\ DecodeIdle /\ PartyIdle /\ RuleIdle /\ CliIdle /\ SupIdle /\ InferIdle /\ LowerIdle /\ ResolveIdle /\ SiteIdle

\* an exception leaves load_program_from_dar
LoadFails(err) ==
    /\ lpc' = "failed"
    /\ load_error' = Some(err.error)
    /\ loaded' = None

\* extract_dalf_entries: the size of the file
Stat ==
    /\ lpc = "stat"
    /\ checks' = Append(checks, <<"container_size", 0, dar.size>>)
    /\ IF dar.size > limits.max_dar_bytes
       THEN LoadFails(Err("ValueError", "DAR size exceeds max"))
       ELSE lpc' = "open" /\ UNCHANGED <<load_error, loaded>>
    /\ UNCHANGED <<dar, scanned, total_uncompressed, entries, packages, notLoadVars>>

\* extract_dalf_entries: the zip is opened and its entries counted
Open ==
    /\ lpc = "open"
    /\ checks' = Append(checks, <<"entry_count", 0, Len(dar.infos)>>)
    /\ IF Len(dar.infos) > limits.max_dar_entries
       THEN LoadFails(Err("ValueError", "DAR contains too many entries"))
       ELSE lpc' = "scan" /\ UNCHANGED <<load_error, loaded>>
    /\ UNCHANGED <<dar, scanned, total_uncompressed, entries, packages, notLoadVars>>

\* extract_dalf_entries: one turn of the loop over the entries
ScanInfo ==
    /\ lpc = "scan" /\ scanned < Len(dar.infos)
    /\ LET turn == scan_info(dar.infos[scanned + 1], scanned + 1, total_uncompressed)
       IN  /\ scanned' = scanned + 1
           /\ total_uncompressed' = turn.total
           /\ checks' = checks \o turn.checks
           /\ IF ~turn.result.ok
              THEN LoadFails(turn.result) /\ UNCHANGED entries
              ELSE /\ entries' = entries \o turn.result.value
                   /\ UNCHANGED <<lpc, load_error, loaded>>
    /\ UNCHANGED <<dar, packages, notLoadVars>>

\* extract_dalf_entries returns; load_program_from_dar refuses an empty list
Extracted ==
    /\ lpc = "scan" /\ scanned = Len(dar.infos)
    /\ IF entries = <<>>
       THEN LoadFails(Err("ValueError", "No .dalf entries found in DAR"))
       ELSE lpc' = "decode" /\ UNCHANGED <<load_error, loaded>>
    /\ UNCHANGED <<dar, scanned, total_uncompressed, entries, checks, packages, notLoadVars>>

\* [decode_dalf(entry) for entry in entries], one entry
DecodeEntry ==
    /\ lpc = "decode" /\ Len(packages) < Len(entries)
    /\ LET result == decode_dalf(entries[Len(packages) + 1])
       IN  IF ~result.ok
           THEN LoadFails(result) /\ UNCHANGED packages
           ELSE /\ packages' = Append(packages, result.value)
                /\ UNCHANGED <<lpc, load_error, loaded>>
    /\ UNCHANGED <<dar, scanned, total_uncompressed, entries, checks, notLoadVars>>

\* return lower_packages(packages)
Lower ==
    /\ lpc = "decode" /\ Len(packages) = Len(entries)
    /\ LET result == lower_packages(packages)
       IN  IF ~result.ok
           THEN LoadFails(result)
           ELSE /\ lpc' = "returned"
                /\ loaded' = Some(result.value)
                /\ UNCHANGED load_error
    /\ UNCHANGED <<dar, scanned, total_uncompressed, entries, checks, packages, notLoadVars>>

LoadNext ==
    \/ Stat
    \/ Open
    \/ ScanInfo
    \/ Extracted
    \/ DecodeEntry
    \/ Lower

LoadSpec == LoadInit /\ [][LoadNext]_vars

\* ==================================================== the claims: decoding

\* ------------------------------------------------------------------- C8

\* the checks that decode_dalf makes before it compares the hashes all pass
ReachesHashCheck(entry) ==
    /\ entry.raw.len <= limits.max_dalf_bytes
    /\ entry.raw.archive # None
    /\ entry.raw.archive[1].hash_function = "SHA256"
    /\ entry.raw.archive[1].payload.len > 0
    /\ entry.raw.archive[1].payload.len <= limits.max_archive_payload_bytes

HashMismatchError == [type |-> "ProtoDecodeError", msg |-> "Archive payload hash mismatch"]

\* C8: decode_dalf fails or returns a package whose package_id is the hex
\* SHA-256 of the envelope's payload bytes.  When the envelope declares a hash
\* that is not string-equal to the computed one the decode fails, with the
\* hash-mismatch error once the checks before the comparison have passed; when
\* it declares none, the package_id of the package returned is the computed
\* hash.
C8_PackageIdIsPayloadHash ==
    decoded # None =>
        LET entry == dalf[1]
            result == decoded[1]
            envelope == entry.raw.archive[1]
            computed == sha256_hex(envelope.payload)
        IN  /\ result.ok => result.value.package_id = computed
            /\ ( entry.raw.archive # None /\ envelope.hash # EmptyText
                 /\ envelope.hash # computed )
               => /\ ~result.ok
                  /\ ReachesHashCheck(entry) => result.error = HashMismatchError
            /\ ( result.ok /\ envelope.hash = EmptyText )
               => result.value.package_id = computed

\* an envelope whose declared hash is the right digest in upper case has been
\* refused with the hash-mismatch error
C8_Witness ==
    /\ decoded # None /\ ~decoded[1].ok
    /\ decoded[1].error = HashMismatchError
    /\ dalf[1].raw.archive[1].hash = <<"SHA256 OF", dalf[1].raw.archive[1].payload>>

\* ------------------------------------------------------------------ C10

\* the checks that decode_dalf makes before it parses the package bytes all
\* pass
ReachesPackageParse(entry) ==
    /\ ReachesHashCheck(entry)
    /\ LET envelope == entry.raw.archive[1]
       IN  /\ envelope.hash \in {EmptyText, sha256_hex(envelope.payload)}
           /\ envelope.payload.message # None
           /\ LET payload == envelope.payload.message[1]
              IN  /\ payload.which \in {"daml_lf_1", "daml_lf_2"}
                  /\ payload.package_bytes.len > 0
                  /\ payload.package_bytes.len <= limits.max_package_bytes
                  /\ normalize_version(IF payload.which = "daml_lf_1" THEN 1 ELSE 2,
                                       payload.minor, payload.patch).ok

V1Error == [type |-> "ProtoDecodeError", msg |-> "LF1 Package decode failed"]
V2Error == [type |-> "ProtoDecodeError", msg |-> "LF2 Package decode failed"]

\* the metadata name of a parsed package
MetadataName(pkg) ==
    IF pkg.metadata = None THEN EmptyText
    ELSE LET idx == pkg.metadata[1].name_interned_str
         IN  IF idx \in 0..(Len(pkg.interned_strings) - 1)
             THEN pkg.interned_strings[idx + 1] ELSE EmptyText

\* a dotted name of the package holds an index below -len(strings)
HasIndexBelowTable(pkg) ==
    \E n \in DOMAIN pkg.interned_dotted_names :
        \E k \in DOMAIN pkg.interned_dotted_names[n] :
            pkg.interned_dotted_names[n][k] < -Len(pkg.interned_strings)

RECURSIVE TreeNodes(_), TreeDepth(_), SumOf(_), MaxOf(_)
SumOf(ns) == IF ns = <<>> THEN 0 ELSE Head(ns) + SumOf(Tail(ns))
MaxOf(ns) == IF ns = <<>> THEN 0
             ELSE LET m == MaxOf(Tail(ns)) IN IF Head(ns) > m THEN Head(ns) ELSE m
\* the message nodes of a tree, and the depth of its deepest node (root: 1)
SetSubMessages(msg) ==
    Concat([ i \in 1..Len(msg) |->
               IF msg[i].type = "TYPE_MESSAGE" THEN msg[i].messages ELSE <<>> ])
TreeNodes(tree) ==
    1 + SumOf([i \in DOMAIN SetSubMessages(tree) |-> TreeNodes(SetSubMessages(tree)[i])])
TreeDepth(tree) ==
    1 + MaxOf([i \in DOMAIN SetSubMessages(tree) |-> TreeDepth(SetSubMessages(tree)[i])])

WithinProtoLimits(pkg) ==
    /\ TreeNodes(pkg.tree) <= limits.max_proto_nodes
    /\ TreeDepth(pkg.tree) <= limits.max_proto_depth

ProtoLimitErrors ==
    { [type |-> "ProtoDecodeError", msg |-> "exceeds max node count"],
      [type |-> "ProtoDecodeError", msg |-> "exceeds max depth"] }

\* C10, as the code has it.  When the payload selects v1 and the v1 parse of
\* the package bytes fails: if the v2 parse fails too, or the v2 package's
\* metadata name is not "daml-prim", decode_dalf fails with the v1 error; if
\* a dotted name of the v2 package holds an index below the string table it
\* fails with an IndexError; if the name is "daml-prim", it goes on with the
\* v2 package as version 2.1 and returns a package of major 2 and version
\* "2.1" when the package is within the node and depth limits, and fails with
\* the limit error when it is not.  When the v1 parse succeeds or the payload
\* selects v2 the fallback is not taken.
C10_FallbackThenLimits ==
    ( decoded # None /\ ReachesPackageParse(dalf[1]) ) =>
        LET result == decoded[1]
            payload == dalf[1].raw.archive[1].payload.message[1]
            bytes == payload.package_bytes
        IN  /\ ( payload.which = "daml_lf_1" /\ bytes.lf1 = None ) =>
                 IF bytes.lf2 = None THEN ~result.ok /\ result.error = V1Error
                 ELSE IF HasIndexBelowTable(bytes.lf2[1])
                 THEN ~result.ok /\ result.error.type = "IndexError"
                 ELSE IF MetadataName(bytes.lf2[1]) # <<"daml-prim">>
                 THEN ~result.ok /\ result.error = V1Error
                 ELSE IF WithinProtoLimits(bytes.lf2[1])
                 THEN /\ result.ok
                      /\ result.value.lf_major = 2
                      /\ result.value.lf_version = <<2, 1>>
                      /\ result.value.lf_package = bytes.lf2[1]
                 ELSE ~result.ok /\ result.error \in ProtoLimitErrors
            /\ ( payload.which = "daml_lf_1" /\ bytes.lf1 # None ) =>
                 /\ result.ok => /\ result.value.lf_major = 1
                                 /\ result.value.lf_package = bytes.lf1[1]
                 /\ ~result.ok => result.error # V1Error
            /\ payload.which = "daml_lf_2" =>
                 /\ bytes.lf2 = None => ~result.ok /\ result.error = V2Error
                 /\ result.ok =>
                      /\ result.value.lf_package = bytes.lf2[1]
                      /\ result.value.lf_version =
                            short(normalize_version(2, payload.minor, payload.patch).value)

\* the fallback has been taken: a payload labelled v1 whose bytes only the v2
\* schema parses was decoded to a package of major 2
C10_Witness ==
    /\ decoded # None /\ decoded[1].ok
    /\ dalf[1].raw.archive[1].payload.message[1].which = "daml_lf_1"
    /\ dalf[1].raw.archive[1].payload.message[1].package_bytes.lf1 = None
    /\ decoded[1].value.lf_major = 2
    /\ decoded[1].value.lf_version = <<2, 1>>

\* C10 as stated: when the payload selects v1 and the v1 parse fails,
\* decode_dalf returns a package of major 2 and version "2.1" if the bytes
\* parse as a v2 package named "daml-prim", and fails with the v1 error in
\* every other case.
C10_FallbackOrV1Error ==
    ( decoded # None /\ ReachesPackageParse(dalf[1]) ) =>
        LET result == decoded[1]
            payload == dalf[1].raw.archive[1].payload.message[1]
            bytes == payload.package_bytes
        IN  ( payload.which = "daml_lf_1" /\ bytes.lf1 = None ) =>
                IF bytes.lf2 # None /\ MetadataName(bytes.lf2[1]) = <<"daml-prim">>
                THEN /\ result.ok
                     /\ result.value.lf_major = 2
                     /\ result.value.lf_version = <<2, 1>>
                ELSE ~result.ok /\ result.error = V1Error

\* ==================================================== the claims: loading

\* ------------------------------------------------------------------- C6

\* the package that decode_dalf goes on with for a payload message: the one
\* the selected schema parses, or, for a payload labelled v1, the one the v2
\* schema parses when the v1 schema parses none
PackageUsed(payload) ==
    LET bytes == payload.package_bytes
    IN  IF payload.which = "daml_lf_1" /\ bytes.lf1 # None THEN bytes.lf1
        ELSE IF payload.which \in {"daml_lf_1", "daml_lf_2"} THEN bytes.lf2
        ELSE None

\* the limits of decode_dalf hold for the bytes of a payload entry, as far as
\* the bytes have the parts the limits are about
RawWithinLimits(raw) ==
    /\ raw.len <= limits.max_dalf_bytes
    /\ raw.archive # None =>
         /\ raw.archive[1].payload.len <= limits.max_archive_payload_bytes
         /\ raw.archive[1].payload.message # None =>
              LET payload == raw.archive[1].payload.message[1]
              IN  /\ payload.which \in {"daml_lf_1", "daml_lf_2"} =>
                        payload.package_bytes.len <= limits.max_package_bytes
                  /\ PackageUsed(payload) # None =>
                        WithinProtoLimits(PackageUsed(payload)[1])

\* every documented limit holds for the container and each payload entry
DarWithinLimits(d) ==
    /\ d.size <= limits.max_dar_bytes
    /\ Len(d.infos) <= limits.max_dar_entries
    /\ SumOf([i \in DOMAIN d.infos |-> d.infos[i].file_size])
          <= limits.max_dar_uncompressed_bytes
    /\ \A i \in DOMAIN d.infos :
          EndsWithDalf(d.infos[i].filename) =>
              /\ d.infos[i].file_size <= limits.max_dalf_bytes
              /\ RawWithinLimits(d.infos[i].data)

\* C6: load_program_from_dar returns a Program only if every limit holds for
\* the container and for each of its payload entries; a load that has not
\* returned, or has failed, has produced no Program, whatever entries were
\* decoded before the failure.
C6_NoProgramBeyondLimits ==
    /\ lpc = "returned" => loaded # None /\ DarWithinLimits(dar)
    /\ lpc # "returned" => loaded = None
    /\ ( lpc \in {"returned", "failed"} /\ ~DarWithinLimits(dar) ) =>
            lpc = "failed" /\ load_error # None

\* the load failed on a structural limit of the second payload entry after
\* the first was decoded, and there is no Program
C6_Witness ==
    /\ lpc = "failed" /\ loaded = None
    /\ Len(packages) = 1 /\ Len(entries) = 2
    /\ load_error[1] \in ProtoLimitErrors

\* ------------------------------------------------------------------- C7

\* the declared sizes of the first i entries, summed
DeclaredThrough(d, i) == SumOf([k \in 1..i |-> d.infos[k].file_size])

RECURSIVE ChecksFrom(_, _)
\* the checks of the loop from the i-th entry on when none of them fails
ChecksFrom(d, i) ==
    IF i > Len(d.infos) THEN <<>>
    ELSE << <<"cumulative", i, DeclaredThrough(d, i)>> >>
         \o ( IF EndsWithDalf(d.infos[i].filename)
              THEN << <<"entry_size", i, d.infos[i].file_size>>,
                      <<"read", i, limits.max_dalf_bytes + 1>> >>
              ELSE <<>> )
         \o ChecksFrom(d, i + 1)

\* every check of extract_dalf_entries in the order of the code: the size of
\* the container, the number of entries, then entry by entry the running
\* total, the declared size and the bounded read
ChecksInOrder(d) ==
    << <<"container_size", 0, d.size>>, <<"entry_count", 0, Len(d.infos)>> >>
    \o ChecksFrom(d, 1)

\* the check finds its limit kept
CheckPasses(d, check) ==
    CASE check[1] = "container_size" -> check[3] <= limits.max_dar_bytes
      [] check[1] = "entry_count" -> check[3] <= limits.max_dar_entries
      [] check[1] = "cumulative" -> check[3] <= limits.max_dar_uncompressed_bytes
      [] check[1] = "entry_size" -> check[3] <= limits.max_dalf_bytes
      [] check[1] = "read" -> d.infos[check[2]].data.len <= limits.max_dalf_bytes

\* C7, as the code has it: extract_dalf_entries checks the container size,
\* then the entry count, then takes the entries in archive order and for each
\* checks the running total of the declared sizes up to and including it,
\* then, for a payload entry, its declared size, then reads it with the bound
\* max_dalf_bytes + 1; it stops at the first check that fails.  A payload
\* entry is size-checked and read after the cumulative limit was checked for
\* the entries up to it, not for the whole archive.
C7_ChecksEntryByEntry ==
    /\ IsPrefix(checks, ChecksInOrder(dar))
    /\ \A k \in DOMAIN checks : k < Len(checks) => CheckPasses(dar, checks[k])
    /\ ( lpc \in {"decode", "returned"} \/ (lpc = "scan" /\ checks # <<>>) ) =>
            CheckPasses(dar, checks[Len(checks)])
    /\ lpc \in {"decode", "returned"} => checks = ChecksInOrder(dar)

\* the first entry, a payload entry, was read before the running total took
\* in the second entry
C7_Witness ==
    /\ Len(checks) >= 6
    /\ checks[5][1] = "read" /\ checks[5][2] = 1
    /\ checks[6][1] = "cumulative" /\ checks[6][2] = 2

\* C7 as stated: no payload entry is size-checked or read before the
\* cumulative limit has been checked for the whole archive.
C7_CumulativeBeforeEntries ==
    \A k \in DOMAIN checks :
        checks[k][1] \in {"entry_size", "read"} =>
            \E j \in 1..(k - 1) :
                checks[j][1] = "cumulative" /\ checks[j][2] = Len(dar.infos)

\* ------------------------------------------------------------------- C9

\* C9 as stated: no two packages of a Program returned by
\* load_program_from_dar have the same package_id.
C9_UniquePackageIds ==
    lpc = "returned" =>
        \A i, j \in DOMAIN loaded[1].packages :
            loaded[1].packages[i].package_id = loaded[1].packages[j].package_id
                => i = j

\* ============================================= the version handling of decode

\* the numbers that the digit runs of a minor text stand for: the minors of
\* the supported versions, the two majors, and minors that are not supported
MinorNumbers == {0, 1, 2, 5, 6, 7, 8, 11, 14, 15, 17}

MinorTokens == { Digits(n) : n \in MinorNumbers } \cup {Dot, Junk}

\* the most tokens a minor text has
MaxMinorTokens == 3

\* the minor texts of the payloads: two runs of digits side by side are one run
MinorTexts ==
    { text \in UNION { [1..n -> MinorTokens] : n \in 0..MaxMinorTokens } :
        \A i \in 1..(Len(text) - 1) : ~(text[i][1] = "int" /\ text[i + 1][1] = "int") }

\* ArchivePayload.patch is an int32
Patches == {Some(0), Some(3)}

\* entries that differ from an accepted one in the selected variant, the minor
\* text and the patch only; both schemas parse their package bytes
VersionPlans ==
    { [GoodPlan EXCEPT !.which = which, !.minor = text, !.patch = patch,
                       !.lf1_parses = TRUE, !.lf2_parses = TRUE] :
        which \in {"daml_lf_1", "daml_lf_2"}, text \in MinorTexts, patch \in Patches }

VersionInit ==
    /\ \E plan \in VersionPlans : dalf = Some(Build(plan))
    /\ decoded = None
    /\ WalkIdle /\ FpIdle /\ LoadIdle /\ PartyIdle /\ RuleIdle /\ CliIdle /\ SupIdle /\ InferIdle /\ LowerIdle /\ ResolveIdle /\ SiteIdle

VersionSpec == VersionInit /\ [][DecodeNext]_vars

\* ------------------------------------------------------------------ C11

\* the minor number that a minor text names for a major: the text is one run
\* of digits, or the major's run, a dot and a run; None for every other text
MinorNamed(text, major) ==
    IF Len(text) = 1 /\ text[1][1] = "int" THEN Some(text[1][2])
    ELSE IF /\ Len(text) = 3
            /\ text[1] = Digits(major) /\ text[2] = Dot /\ text[3][1] = "int"
    THEN Some(text[3][2])
    ELSE None

SupportedSet ==
    { <<1, 6>>, <<1, 7>>, <<1, 8>>, <<1, 11>>, <<1, 14>>, <<1, 15>>, <<1, 17>>, <<2, 1>> }

\* C11: with the fallback out of play, decode_dalf accepts a payload exactly
\* when its minor text has the form "N", or "M.N" with M the major of the
\* selected variant, and "major.N" is a supported version, whatever the
\* patch; the package returned then has that major, minor N, the payload's
\* patch and the version "major.N".
C11_VersionAccepted ==
    decoded # None =>
        LET payload == dalf[1].raw.archive[1].payload.message[1]
            major == IF payload.which = "daml_lf_1" THEN 1 ELSE 2
            named == MinorNamed(payload.minor, major)
            result == decoded[1]
        IN  /\ result.ok <=> ( named # None /\ <<major, named[1]>> \in SupportedSet )
            /\ result.ok =>
                 /\ result.value.lf_major = major
                 /\ result.value.lf_minor = named[1]
                 /\ result.value.lf_patch = payload.patch
                 /\ result.value.lf_version = <<major, named[1]>>
            /\ ~result.ok => result.error.type = "ProtoDecodeError"

\* a v1 payload whose minor text is "1.14" and whose patch is 3 was accepted
\* as version 1.14
C11_Witness ==
    /\ decoded # None /\ decoded[1].ok
    /\ dalf[1].raw.archive[1].payload.message[1].minor = <<Digits(1), Dot, Digits(14)>>
    /\ dalf[1].raw.archive[1].payload.message[1].patch = Some(3)
    /\ decoded[1].value.lf_version = <<1, 14>>

\* ====================================================== analysis/party.py

PartySet(known, unknown) == [known |-> known, unknown |-> unknown]

\* PartySet(): no party known, and definite
EmptyPartySet == PartySet({}, FALSE)

\* PartySet.unknown_set()
unknown_set == PartySet({}, TRUE)

\* a union that forgets that a side is unknown
union_Definite(a, b) == PartySet(a.known \cup b.known, FALSE)

union(a, b) == PartySet(a.known \cup b.known, a.unknown \/ b.unknown)

is_definitely_subset_of(a, b) ==
    IF a.unknown \/ b.unknown THEN FALSE ELSE a.known \subseteq b.known

is_definitely_not_subset_of(a, b) ==
    IF a.unknown \/ b.unknown THEN FALSE ELSE ~(a.known \subseteq b.known)

\* the most parties there are
MaxParties == 2

Parties == { <<"party", n>> : n \in 1..MaxParties }

PartySets == { PartySet(known, unknown) : known \in SUBSET Parties, unknown \in BOOLEAN }

PartyInit ==
    /\ \E a \in PartySets, b \in PartySets : psArgs = Some(<<a, b>>)
    /\ psOut = None
    /\ WalkIdle /\ FpIdle /\ DecodeIdle /\ LoadIdle /\ RuleIdle /\ CliIdle /\ SupIdle /\ InferIdle /\ LowerIdle /\ ResolveIdle /\ SiteIdle

\* the operations of PartySet applied to a and b
PartyOps ==
    /\ psArgs # None /\ psOut = None
    /\ LET a == psArgs[1][1]
           b == psArgs[1][2]
       IN  psOut' = Some([ union      |-> union(a, b),
                           with_empty |-> union(a, EmptyPartySet),
                           subset     |-> is_definitely_subset_of(a, b),
                           not_subset |-> is_definitely_not_subset_of(a, b) ])
    /\ UNCHANGED <<psArgs, notPartyVars>>

PartyNext == PartyOps

PartySpec == PartyInit /\ [][PartyNext]_vars

\* ------------------------------------------------------------------ C12

\* C12: the known parties of union(a, b) take in those of a and of b, and
\* union(a, b) is unknown whenever a or b is; the union of a with the empty
\* definite set is a; when a or b is unknown neither is_definitely_subset_of
\* nor is_definitely_not_subset_of holds of (a, b), and when both are definite
\* exactly one of the two holds.
C12_PartySetAlgebra ==
    psOut # None =>
        LET a == psArgs[1][1]
            b == psArgs[1][2]
            out == psOut[1]
        IN  /\ a.known \subseteq out.union.known
            /\ b.known \subseteq out.union.known
            /\ (a.unknown \/ b.unknown) => out.union.unknown
            /\ out.with_empty = a
            /\ (a.unknown \/ b.unknown) => ~out.subset /\ ~out.not_subset
            /\ ~(a.unknown \/ b.unknown) => (out.subset <=> ~out.not_subset)

\* the operations were applied to an unknown set that holds a party and a
\* definite set that holds none
C12_Witness ==
    /\ psOut # None
    /\ psArgs[1][1].unknown /\ psArgs[1][1].known # {}
    /\ ~psArgs[1][2].unknown /\ psArgs[1][2].known = {}
    /\ psOut[1].union.unknown
    /\ ~psOut[1].subset /\ ~psOut[1].not_subset

\* ------------------------------------------- analysis/party.py: inference

\* Expr(kind=..., value=..., children=[...]) of the IR.  The value of an
\* expression is None, a str (a name) or a dict with the keys "template" and
\* "choice"; a name is a tuple of texts.
Str(name) == <<"str", name>>

Dict(template, choice) == <<"dict", template, choice>>

\* isinstance(value, str)
IsStr(value) == value # None /\ value[1] = "str"

\* isinstance(value, dict)
IsDict(value) == value # None /\ value[1] = "dict"

ValueExpr(kind, value, children) ==
    [ kind |-> kind, value |-> value, children |-> children ]

\* env: dict[str, PartySet], a function on the names it binds
EmptyEnv == <<>>

\* env.get(name, PartySet.unknown_set())
EnvGet(env, name) == IF name \in DOMAIN env THEN env[name] ELSE unknown_set

\* local_env[name] = value
EnvSet(env, name, value) ==
    [ n \in DOMAIN env \cup {name} |-> IF n = name THEN value ELSE env[n] ]

\* a loop over the bindings that binds nothing
infer_bindings_None(bindings, local_env) == local_env

RECURSIVE infer_party_set(_, _), infer_each(_, _, _, _), infer_bindings(_, _)
\* the loops "for child in ...: acc = acc.union(infer_party_set(child, env))",
\* with or without the early return on an unknown accumulator
infer_each(children, env, acc, return_on_unknown) ==
    IF children = <<>> THEN acc
    ELSE LET nxt == union(acc, infer_party_set(Head(children), env))
         IN  IF return_on_unknown /\ nxt.unknown THEN nxt
             ELSE infer_each(Tail(children), env, nxt, return_on_unknown)

\* the loop over the bindings of a let: each well-formed binding extends the
\* local environment with the set inferred for its bound expression
infer_bindings(bindings, local_env) ==
    IF bindings = <<>> THEN local_env
    ELSE LET binding == Head(bindings)
         IN  IF binding.kind # "binding" \/ binding.children = <<>>
                \/ ~IsStr(binding.value)
             THEN infer_bindings(Tail(bindings), local_env)
             ELSE infer_bindings(Tail(bindings),
                      EnvSet(local_env, binding.value[2],
                             infer_party_set(binding.children[1], local_env)))

infer_party_set(expr, env) ==
    IF expr.kind = "party" /\ IsStr(expr.value)
    THEN PartySet({expr.value[2]}, FALSE)
    ELSE IF expr.kind = "list"
    THEN infer_each(expr.children, env, EmptyPartySet, TRUE)
    ELSE IF expr.kind = "cons"
    THEN IF expr.children = <<>> THEN unknown_set
         ELSE infer_each(expr.children, env, EmptyPartySet, FALSE)
    ELSE IF expr.kind = "var" /\ IsStr(expr.value)
    THEN EnvGet(env, expr.value[2])
    ELSE IF expr.kind = "let"
    THEN IF expr.children = <<>> THEN unknown_set
         ELSE LET n == Len(expr.children)
              IN  infer_party_set(expr.children[n],
                      infer_bindings(SubSeq(expr.children, 1, n - 1), env))
    ELSE IF expr.kind = "case"
    THEN IF Len(expr.children) < 2 THEN unknown_set
         ELSE infer_each(Tail(expr.children), env, EmptyPartySet, TRUE)
    ELSE unknown_set

\* --------------------------------- analysis/lifecycle.py: the update ops

UpdateOp(kind, template, choice) ==
    [ kind |-> kind, template |-> template, choice |-> choice ]

\* _template_from(node)
template_from(node) ==
    IF IsStr(node.value) THEN Some(node.value[2]) ELSE None

\* _template_choice_from(node)
template_choice_from(node) ==
    IF IsDict(node.value) THEN <<node.value[2], node.value[3]>> ELSE <<None, None>>

\* the update kinds whose op carries the template named by the node's value
TemplateOpKinds ==
    { "create", "create_interface", "fetch", "soft_fetch", "fetch_interface",
      "lookup_by_key", "fetch_by_key" }

\* the update kinds whose op carries a template and a choice
ExerciseOpKinds ==
    { "exercise", "exercise_by_key", "exercise_interface", "dynamic_exercise",
      "soft_exercise" }

\* the update kinds whose op carries nothing
BareOpKinds == { "ledger_time_lt", "get_time" }

\* the kinds "update.<op>" that append an op, each with the kind of its op
UpdateOpKinds ==
    { <<"update.create", "create">>,
      <<"update.create_interface", "create_interface">>,
      <<"update.exercise", "exercise">>,
      <<"update.exercise_by_key", "exercise_by_key">>,
      <<"update.exercise_interface", "exercise_interface">>,
      <<"update.dynamic_exercise", "dynamic_exercise">>,
      <<"update.fetch", "fetch">>,
      <<"update.soft_fetch", "soft_fetch">>,
      <<"update.fetch_interface", "fetch_interface">>,
      <<"update.soft_exercise", "soft_exercise">>,
      <<"update.lookup_by_key", "lookup_by_key">>,
      <<"update.fetch_by_key", "fetch_by_key">>,
      <<"update.ledger_time_lt", "ledger_time_lt">>,
      <<"update.get_time", "get_time">> }

\* the op appended for one node, if any
OpsOf(node) ==
    LET matching == { p \in UpdateOpKinds : p[1] = node.kind }
    IN  IF matching = {} THEN <<>>
        ELSE LET k == (CHOOSE p \in matching : TRUE)[2]
             IN  IF k \in TemplateOpKinds
                 THEN <<UpdateOp(k, template_from(node), None)>>
                 ELSE IF k \in ExerciseOpKinds
                 THEN <<UpdateOp(k, template_choice_from(node)[1],
                                 template_choice_from(node)[2])>>
                 ELSE <<UpdateOp(k, None, None)>>

\* walk(node): the op of the node, then those of its children in order
RECURSIVE collect_update_ops(_), collect_children(_)
collect_children(children) ==
    IF children = <<>> THEN <<>>
    ELSE collect_update_ops(Head(children)) \o collect_children(Tail(children))

collect_update_ops(expr) == OpsOf(expr) \o collect_children(expr.children)

\* ------------------------------------------ rules/examples.py: the rules

\* the rule classes of rules/examples.py modelled here
RuleClasses ==
    { "DAML-AUTH-001", "DAML-AUTH-002", "DAML-AUTH-003", "DAML-AUTH-004",
      "DAML-LIFE-001", "DAML-LIFE-002" }

\* the severity, confidence and category of the meta of each rule class
RuleMeta ==
    [ id \in RuleClasses |->
        CASE id = "DAML-AUTH-001" -> [severity |-> "MEDIUM", confidence |-> "MEDIUM", category |-> "auth"]
          [] id = "DAML-AUTH-002" -> [severity |-> "MEDIUM", confidence |-> "LOW", category |-> "auth"]
          [] id = "DAML-AUTH-003" -> [severity |-> "HIGH", confidence |-> "MEDIUM", category |-> "auth"]
          [] id = "DAML-AUTH-004" -> [severity |-> "MEDIUM", confidence |-> "LOW", category |-> "auth"]
          [] id = "DAML-LIFE-001" -> [severity |-> "HIGH", confidence |-> "MEDIUM", category |-> "lifecycle"]
          [] id = "DAML-LIFE-002" -> [severity |-> "MEDIUM", confidence |-> "MEDIUM", category |-> "lifecycle"] ]

\* Finding(id=self.meta.id, severity=self.meta.severity, ..., metadata=...)
\* as a rule builds it; the metadata is a dict, its items in insertion order
RuleFinding(id, metadata) ==
    [ id         |-> id,
      severity   |-> RuleMeta[id].severity,
      confidence |-> RuleMeta[id].confidence,
      category   |-> RuleMeta[id].category,
      metadata   |-> metadata ]

\* {"template": template.name, "choice": choice.name}
ChoiceMetadata(template, choice) ==
    << <<"template", template.name>>, <<"choice", choice.name>> >>

\* the rule with the key maintainers left out of the allowed parties
AuthControllerAlignmentRule_NoMaintainers(template, choice) ==
    IF is_definitely_not_subset_of(infer_party_set(choice.controllers, EmptyEnv),
                                   infer_party_set(template.signatories, EmptyEnv))
    THEN <<RuleFinding("DAML-AUTH-001", ChoiceMetadata(template, choice))>>
    ELSE <<>>

\* AuthControllerAlignmentRule.visit_choice: the findings it emits
AuthControllerAlignmentRule(template, choice) ==
    LET controllers == infer_party_set(choice.controllers, EmptyEnv)
        signatories == infer_party_set(template.signatories, EmptyEnv)
        allowed == IF template.key # None
                   THEN union(signatories,
                              infer_party_set(template.key[1].maintainers, EmptyEnv))
                   ELSE signatories
    IN  IF is_definitely_not_subset_of(controllers, allowed)
        THEN <<RuleFinding("DAML-AUTH-001", ChoiceMetadata(template, choice))>>
        ELSE <<>>

\* the rule that reports every choice
UncontrolledControllersRule_Always(template, choice) ==
    <<RuleFinding("DAML-AUTH-002", ChoiceMetadata(template, choice))>>

\* UncontrolledControllersRule.visit_choice
UncontrolledControllersRule(template, choice) ==
    IF infer_party_set(choice.controllers, EmptyEnv).unknown
    THEN <<RuleFinding("DAML-AUTH-002", ChoiceMetadata(template, choice))>>
    ELSE <<>>

\* EmptySignatoriesRule.visit_template
EmptySignatoriesRule(template) ==
    LET parties == infer_party_set(template.signatories, EmptyEnv)
    IN  IF ~parties.unknown /\ Cardinality(parties.known) = 0
        THEN <<RuleFinding("DAML-AUTH-003", << <<"template", template.name>> >>)>>
        ELSE <<>>

\* UncheckedForwardExerciseRule.visit_choice
UncheckedForwardExerciseRule(template, choice) ==
    LET ops == collect_update_ops(choice.update)
    IN  IF choice.consuming THEN <<>>
        ELSE IF ops = <<>> \/ \E i \in DOMAIN ops : ops[i].kind \notin ExerciseOpKinds
        THEN <<>>
        ELSE <<RuleFinding("DAML-AUTH-004", ChoiceMetadata(template, choice))>>

\* NonconsumingCreateRule.visit_choice
NonconsumingCreateRule(template, choice) ==
    LET ops == collect_update_ops(choice.update)
    IN  IF choice.consuming THEN <<>>
        ELSE IF \E i \in DOMAIN ops :
                   ops[i].kind = "create" /\ ops[i].template = Some(template.name)
        THEN <<RuleFinding("DAML-LIFE-001", ChoiceMetadata(template, choice))>>
        ELSE <<>>

\* the rule without the test that skips the self-create case
NonconsumingCreateAnyRule_NoSelfTest(template, choice) ==
    LET ops == collect_update_ops(choice.update)
    IN  IF choice.consuming THEN <<>>
        ELSE IF \A i \in DOMAIN ops : ops[i].kind \notin {"create", "create_interface"}
        THEN <<>>
        ELSE <<RuleFinding("DAML-LIFE-002", ChoiceMetadata(template, choice))>>

\* NonconsumingCreateAnyRule.visit_choice; "if op.template" keeps the ops
\* whose template is a non-empty text
NonconsumingCreateAnyRule(template, choice) ==
    LET ops == collect_update_ops(choice.update)
        creates == { i \in DOMAIN ops : ops[i].kind \in {"create", "create_interface"} }
    IN  IF choice.consuming THEN <<>>
        ELSE IF creates = {} THEN <<>>
        ELSE IF \A i \in creates :
                   ops[i].template # None => ops[i].template = Some(template.name)
        THEN <<>>
        ELSE <<RuleFinding("DAML-LIFE-002", ChoiceMetadata(template, choice))>>

\* rules/registry.py: the ids of the rules registry() returns, in order
registry ==
    << "DAML-AUTH-001", "DAML-LIFE-001", "DAML-PRIV-001", "DAML-KEY-001",
       "DAML-DET-001" >>

\* what the hooks of one rule class emit on a template and one of its
\* choices: visit_template, then visit_choice
HooksOf(id, template, choice) ==
    CASE id = "DAML-AUTH-001" -> AuthControllerAlignmentRule(template, choice)
      [] id = "DAML-AUTH-002" -> UncontrolledControllersRule(template, choice)
      [] id = "DAML-AUTH-003" -> EmptySignatoriesRule(template)
      [] id = "DAML-AUTH-004" -> UncheckedForwardExerciseRule(template, choice)
      [] id = "DAML-LIFE-001" -> NonconsumingCreateRule(template, choice)
      [] id = "DAML-LIFE-002" -> NonconsumingCreateAnyRule(template, choice)

\* ------------------------------ the rules on one template and one choice

\* the template Main.T, another template and an interface of the package
EnclosingTemplate == <<"Main", "T">>

OtherTemplate == <<"Main", "Child">>

SomeInterface == <<"Main", "IAsset">>

\* Template(name=..., signatories=..., key=...): key is None or a TemplateKey
RuleTemplate(signatories, key) ==
    [ name |-> EnclosingTemplate, signatories |-> signatories, key |-> key ]

\* Choice(name=..., consuming=..., controllers=..., update=...)
RuleChoice(consuming, controllers, update) ==
    [ name |-> "Transfer", consuming |-> consuming, controllers |-> controllers,
      update |-> update ]

PartyLit(p) == ValueExpr("party", Str(p), <<>>)

Var(name) == ValueExpr("var", Str(<<name>>), <<>>)

Binding(name, bound) == ValueExpr("binding", Str(<<name>>), <<bound>>)

\* the literals of the parties of a set, in some order
RECURSIVE PartyLits(_)
PartyLits(ps) ==
    IF ps = {} THEN <<>>
    ELSE LET p == CHOOSE x \in ps : TRUE
         IN  <<PartyLit(p)>> \o PartyLits(ps \ {p})

\* a list of party literals, or a variable that no let binds
PlainPartyExprs ==
    { ValueExpr("list", None, PartyLits(ps)) : ps \in SUBSET Parties }
        \cup { Var("arg") }

\* the expressions the controllers of the choice are drawn from: one or more
\* of every kind infer_party_set tells apart
PartyExprs ==
    PlainPartyExprs
        \cup { PartyLit(p) : p \in Parties }
        \cup { ValueExpr("party", None, <<>>),
               ValueExpr("cons", None, <<>>),
               ValueExpr("let", None, <<>>),
               ValueExpr("case", None, <<Var("arg")>>),
               ValueExpr("app", None, <<PartyLit(<<"party", 1>>)>>) }
        \cup { ValueExpr("list", None, <<PartyLit(p), Var("arg"), PartyLit(q)>>) :
                 p \in Parties, q \in Parties }
        \cup { ValueExpr("cons", None, <<PartyLit(p), ValueExpr("list", None, <<PartyLit(q)>>)>>) :
                 p \in Parties, q \in Parties }
        \cup { ValueExpr("cons", None, <<PartyLit(p), Var("arg")>>) : p \in Parties }
        \cup { ValueExpr("let", None,
                   <<Binding("x", ValueExpr("list", None, <<PartyLit(p)>>)),
                     Binding("y", ValueExpr("cons", None, <<PartyLit(q), Var("x")>>)),
                     Var("y")>>) : p \in Parties, q \in Parties }
        \cup { ValueExpr("case", None, <<Var("arg"), PartyLit(p),
                                         ValueExpr("list", None, <<PartyLit(q)>>)>>) :
                 p \in Parties, q \in Parties }

Create(template) == ValueExpr("update.create", template, <<ValueExpr("record", None, <<>>)>>)

CreateInterface(interface) ==
    ValueExpr("update.create_interface", interface, <<ValueExpr("record", None, <<>>)>>)

Exercise(template) ==
    ValueExpr("update.exercise", Dict(Some(template), Some("Archive")),
              <<Var("cid"), ValueExpr("record", None, <<>>)>>)

Block(first, last) ==
    ValueExpr("update.block", None, <<Binding("r", first), last>>)

\* one update step: a create of the enclosing template, of another template,
\* of an unnamed template, of an interface, an exercise, a fetch, or no op
UpdateSteps ==
    { Create(Str(EnclosingTemplate)), Create(Str(OtherTemplate)), Create(None),
      CreateInterface(Str(SomeInterface)), Exercise(OtherTemplate),
      ValueExpr("update.fetch", Str(OtherTemplate), <<Var("cid")>>),
      ValueExpr("update.pure", None, <<ValueExpr("record", None, <<>>)>>) }

\* the updates of the choice: one step, a block of two steps, or a step
\* under an expression that is no update
UpdateExprs ==
    UpdateSteps
        \cup { Block(a, b) : a \in UpdateSteps, b \in UpdateSteps }
        \cup { ValueExpr("case", None, <<Var("arg"), a>>) : a \in UpdateSteps }

\* a template and a choice that differ in the party expressions
AuthSubjects ==
    { [ template |-> RuleTemplate(signatories, key),
        choice   |-> RuleChoice(TRUE, controllers,
                                ValueExpr("update.pure", None, <<>>)) ] :
        controllers \in PartyExprs,
        signatories \in PlainPartyExprs,
        key \in {None} \cup { Some([ maintainers |-> m ]) : m \in PlainPartyExprs } }

\* a template and a choice that differ in the update and in consuming
LifeSubjects ==
    { [ template |-> RuleTemplate(ValueExpr("list", None, <<PartyLit(<<"party", 1>>)>>), None),
        choice   |-> RuleChoice(consuming,
                                ValueExpr("list", None, <<PartyLit(<<"party", 1>>)>>),
                                update) ] :
        consuming \in BOOLEAN, update \in UpdateExprs }

\* findings = run(filter_rules(registry(), None, None), program): the findings
\* with a given id are those of the registered rules with that id
ScanFindings(id) ==
    Concat([ i \in DOMAIN registry |->
               IF registry[i] = id THEN ruleFindings[1][id] ELSE <<>> ])

RuleInit ==
    /\ ruleSubject \in { Some(s) : s \in AuthSubjects \cup LifeSubjects }
    /\ ruleFindings = None
    /\ WalkIdle /\ FpIdle /\ DecodeIdle /\ LoadIdle /\ PartyIdle /\ CliIdle /\ SupIdle /\ InferIdle /\ LowerIdle /\ ResolveIdle /\ SiteIdle

\* the hooks of every rule class are called on the template and the choice:
\* what each of them emits
ApplyRules ==
    /\ ruleSubject # None
    /\ ruleFindings = None
    /\ ruleFindings' = Some([ id \in RuleClasses |->
                                HooksOf(id, ruleSubject[1].template, ruleSubject[1].choice) ])
    /\ UNCHANGED <<ruleSubject, notRuleVars>>

RuleNext == ApplyRules

RuleSpec == RuleInit /\ [][RuleNext]_vars

\* ------------------------------------------------ claims C13, C14, C15, C16

\* the findings a rule class has emitted on the template and the choice
Emitted(id) == ruleFindings[1][id]

ControllersSet == infer_party_set(ruleSubject[1].choice.controllers, EmptyEnv)

SignatoriesSet == infer_party_set(ruleSubject[1].template.signatories, EmptyEnv)

HasKey == ruleSubject[1].template.key # None

MaintainersSet ==
    IF HasKey
    THEN infer_party_set(ruleSubject[1].template.key[1].maintainers, EmptyEnv)
    ELSE EmptyPartySet

\* the controllers, the signatories and, with a key, the maintainers are
\* all inferred as definite sets
AllDefinite ==
    ~ControllersSet.unknown /\ ~SignatoriesSet.unknown /\ ~MaintainersSet.unknown

\* some controller is neither a signatory nor, with a key, a maintainer
StrayController ==
    \E p \in ControllersSet.known :
        p \notin SignatoriesSet.known /\ p \notin MaintainersSet.known

\* C13: DAML-AUTH-001 emits exactly one finding for a choice if the party
\* sets inferred for the controllers, the signatories and (with a key) the
\* maintainers are all definite and some controller is neither a signatory
\* nor a maintainer, and none otherwise; the metadata of the finding holds
\* the qualified name of the template and the name of the choice.
C13_ControllerAlignment ==
    ruleFindings # None =>
        /\ Len(Emitted("DAML-AUTH-001")) = (IF AllDefinite /\ StrayController THEN 1 ELSE 0)
        /\ \A i \in DOMAIN Emitted("DAML-AUTH-001") :
               /\ Emitted("DAML-AUTH-001")[i].id = "DAML-AUTH-001"
               /\ Emitted("DAML-AUTH-001")[i].metadata =
                      << <<"template", <<"Main", "T">> >>, <<"choice", "Transfer">> >>

\* a finding of DAML-AUTH-001 on a template with a key for a choice with two
\* controllers, one of them a maintainer and no signatory
C13_Witness ==
    /\ ruleFindings # None
    /\ HasKey
    /\ Len(Emitted("DAML-AUTH-001")) = 1
    /\ Cardinality(ControllersSet.known) = 2
    /\ \E p \in ControllersSet.known :
           p \in MaintainersSet.known /\ p \notin SignatoriesSet.known

\* C14: for a choice whose controllers are inferred as unknown DAML-AUTH-002
\* emits exactly one finding and DAML-AUTH-001 none; DAML-AUTH-002 emits
\* nothing when the controllers are definite; no choice gets both findings.
C14_UnknownControllers ==
    ruleFindings # None =>
        /\ ControllersSet.unknown =>
               Len(Emitted("DAML-AUTH-002")) = 1 /\ Emitted("DAML-AUTH-001") = <<>>
        /\ ~ControllersSet.unknown => Emitted("DAML-AUTH-002") = <<>>
        /\ Emitted("DAML-AUTH-001") = <<>> \/ Emitted("DAML-AUTH-002") = <<>>

\* the controllers are unknown although a party known to be among them is
\* neither a signatory nor a maintainer of definite sets: DAML-AUTH-002 alone
C14_Witness ==
    /\ ruleFindings # None
    /\ ControllersSet.unknown
    /\ ~SignatoriesSet.unknown /\ ~MaintainersSet.unknown
    /\ StrayController
    /\ Len(Emitted("DAML-AUTH-002")) = 1

\* the expressions of a tree
RECURSIVE SubExprs(_)
SubExprs(expr) ==
    {expr} \cup UNION { SubExprs(expr.children[i]) : i \in DOMAIN expr.children }

\* the creates anywhere in the update of the choice
CreatesInUpdate ==
    { n \in SubExprs(ruleSubject[1].choice.update) :
        n.kind \in {"update.create", "update.create_interface"} }

\* a create op whose template is the enclosing template
CreatesEnclosing ==
    \E n \in CreatesInUpdate :
        n.kind = "update.create" /\ n.value = Str(ruleSubject[1].template.name)

\* a create or create_interface op that names a template other than the
\* enclosing one
CreatesAnother ==
    \E n \in CreatesInUpdate :
        IsStr(n.value) /\ n.value # Str(ruleSubject[1].template.name)

NonConsuming == ~ruleSubject[1].choice.consuming

\* C15: DAML-LIFE-001 emits exactly one finding if the choice is
\* non-consuming and its update holds a create of the enclosing template,
\* none otherwise; DAML-LIFE-002 emits exactly one if the choice is
\* non-consuming and its update holds a create or create_interface of a
\* template that differs from the enclosing one, none otherwise; a
\* non-consuming choice whose creates all target the enclosing template gets
\* DAML-LIFE-001 and no DAML-LIFE-002; a consuming choice gets neither.
C15_NonconsumingCreates ==
    ruleFindings # None =>
        /\ Len(Emitted("DAML-LIFE-001")) = (IF NonConsuming /\ CreatesEnclosing THEN 1 ELSE 0)
        /\ Len(Emitted("DAML-LIFE-002")) = (IF NonConsuming /\ CreatesAnother THEN 1 ELSE 0)
        /\ ( /\ NonConsuming
             /\ CreatesInUpdate # {}
             /\ \A n \in CreatesInUpdate : n.value = Str(ruleSubject[1].template.name) )
               => Len(Emitted("DAML-LIFE-001")) = 1 /\ Emitted("DAML-LIFE-002") = <<>>
        /\ ~NonConsuming => Emitted("DAML-LIFE-001") = <<>> /\ Emitted("DAML-LIFE-002") = <<>>

\* a non-consuming choice that creates the enclosing template and another
\* one: both findings
C15_Witness ==
    /\ ruleFindings # None
    /\ NonConsuming /\ CreatesEnclosing /\ CreatesAnother
    /\ Len(Emitted("DAML-LIFE-001")) = 1 /\ Len(Emitted("DAML-LIFE-002")) = 1

\* the nine rules of the baseline set
BaselineRules ==
    { "DAML-AUTH-001", "DAML-AUTH-002", "DAML-AUTH-003", "DAML-AUTH-004",
      "DAML-LIFE-001", "DAML-LIFE-002", "DAML-PRIV-001", "DAML-KEY-001",
      "DAML-DET-001" }

\* C16: registry() holds each of the nine baseline rules exactly once, so a
\* scan without allow and deny lists reports one DAML-AUTH-003 for a template
\* whose signatories are [] and one DAML-AUTH-004 for a non-consuming choice
\* whose update is a single exercise.
C16_RegistryHoldsBaselineRules ==
    ruleFindings # None =>
        /\ \A id \in BaselineRules :
               Cardinality({ i \in DOMAIN registry : registry[i] = id }) = 1
        /\ ruleSubject[1].template.signatories = ValueExpr("list", None, <<>>)
               => Len(ScanFindings("DAML-AUTH-003")) = 1
        /\ (NonConsuming /\ ruleSubject[1].choice.update.kind = "update.exercise")
               => Len(ScanFindings("DAML-AUTH-004")) = 1

\* ------------------------------------------------------- model.py, cli.py

\* class Severity
Severities == {"LOW", "MEDIUM", "HIGH", "CRITICAL"}

\* _severity_order(sev)
severity_order(sev) ==
    CASE sev = "LOW" -> 1 [] sev = "MEDIUM" -> 2 [] sev = "HIGH" -> 3
      [] sev = "CRITICAL" -> 4

\* value.upper(), on the texts the scans are given
Upper(text) ==
    CASE text = "low" -> "LOW" [] text = "medium" -> "MEDIUM"
      [] text = "high" -> "HIGH" [] text = "critical" -> "CRITICAL"
      [] text = "bogus" -> "BOGUS"
      [] OTHER -> text

\* cli._parse_severity(value): None for no text or "", the member of
\* Severity named by the upper-cased text, KeyError for any other text
parse_severity(value) ==
    IF value = None \/ value = Some("") THEN Ok(None)
    ELSE IF Upper(value[1]) \in Severities THEN Ok(Some(Upper(value[1])))
    ELSE Err("KeyError", Upper(value[1]))

\* config._parse_severity(value): as above, but "" is looked up too
config_parse_severity(value) ==
    IF value = None THEN Ok(None)
    ELSE IF Upper(value[1]) \in Severities THEN Ok(Some(Upper(value[1])))
    ELSE Err("KeyError", Upper(value[1]))

\* _merge_val(primary, fallback) and _merge_set(primary, fallback)
merge_val(primary, fallback) == IF primary # None THEN primary ELSE fallback

\* _filter_by_severity(findings, minimum)
filter_by_severity(fs, minimum) ==
    IF minimum = None THEN fs
    ELSE SelectSeq(fs,
             LAMBDA f : severity_order(f.severity) >= severity_order(minimum[1]))

EXIT_OK == 0

EXIT_FINDINGS == 1

EXIT_USAGE == 2

EXIT_ERROR == 3

\* the exit code from a threshold that a finding has to exceed
exit_code_Above(fs, fail_on) ==
    IF fail_on = None THEN EXIT_OK
    ELSE IF \E i \in DOMAIN fs :
                severity_order(fs[i].severity) > severity_order(fail_on[1])
    THEN EXIT_FINDINGS
    ELSE EXIT_OK

\* _exit_code(findings, fail_on)
exit_code(fs, fail_on) ==
    IF fail_on = None THEN EXIT_OK
    ELSE IF \E i \in DOMAIN fs :
                severity_order(fs[i].severity) >= severity_order(fail_on[1])
    THEN EXIT_FINDINGS
    ELSE EXIT_OK

\* a config file: whether it can be read and parsed as TOML, and the values
\* of its keys (None for a key that is absent)
ConfigFile(readable, severity, fail_on, format, ci, path, write) ==
    [ readable |-> readable, severity |-> severity, fail_on |-> fail_on,
      format |-> format, ci |-> ci, path |-> path, write |-> write ]

\* class Config
Config(min_severity, fail_on, baseline, write_baseline, fmt, ci) ==
    [ min_severity |-> min_severity, fail_on |-> fail_on, baseline |-> baseline,
      write_baseline |-> write_baseline, fmt |-> fmt, ci |-> ci ]

\* load_config(path): None without a path.  [baseline] write is absent, a
\* bool (<<"bool", b>>) or anything else (<<"str", text>>).
load_config(config) ==
    IF config = None THEN Ok(None)
    ELSE LET file == config[1]
             write_path ==
                 IF file.write = None THEN None
                 ELSE IF file.write[1][1] = "bool"
                 THEN (IF file.write[1][2] THEN file.path ELSE None)
                 ELSE Some(file.write[1][2])
             min_severity == config_parse_severity(file.severity)
             fail_on == config_parse_severity(file.fail_on)
         IN  IF ~file.readable THEN Err("OSError", "config")
             ELSE IF ~min_severity.ok THEN min_severity
             ELSE IF ~fail_on.ok THEN fail_on
             ELSE Ok(Some(Config(min_severity.value, fail_on.value, file.path,
                                 write_path, file.format, file.ci)))

\* _resolve_dar(dar, project, no_build); the project is None or, when given,
\* the dar find_newest_dar finds under it (None for no dar)
resolve_dar(dar_arg, project) ==
    IF dar_arg # None THEN Ok(dar_arg[1])
    ELSE IF project = None THEN Err("ValueError", "--dar or --project is required")
    ELSE IF project[1] = None THEN Err("ValueError", "No .dar found under project path")
    ELSE Ok(project[1][1])

\* filter_rules(rules, allowlist, denylist), on the ids of the rules
filter_rules(rule_ids, allowlist, denylist) ==
    LET allow == IF allowlist = None THEN {} ELSE allowlist[1]
        deny == IF denylist = None THEN {} ELSE denylist[1]
    IN  SelectSeq(rule_ids,
            LAMBDA id : (allow = {} \/ id \in allow) /\ id \notin deny)

\* run(rules, program): the finalized findings of the rules on the program
\* are those the program gives rise to under a rule of the list
run_rules(rule_ids, prog) ==
    SelectSeq(prog.findings, LAMBDA f : \E i \in DOMAIN rule_ids : rule_ids[i] = f.id)

\* the fingerprints of the findings above a severity only
all_fingerprints_Filtered(fs) ==
    LET kept == SelectSeq(fs, LAMBDA f : severity_order(f.severity) >= severity_order("HIGH"))
    IN  [ i \in DOMAIN kept |-> kept[i].fingerprint ]

\* all_fingerprints = [f.fingerprint for f in findings if f.fingerprint]
all_fingerprints(fs) ==
    LET kept == SelectSeq(fs, LAMBDA f : f.fingerprint # None)
    IN  [ i \in DOMAIN kept |-> kept[i].fingerprint ]

\* ------------------------------------------------------- util/baseline.py

\* get_version() and RULESET_VERSION
CurrentToolVersion == "0.0.1"

RULESET_VERSION == "ruleset"

\* what a path holds: nothing, a text that is no JSON, or a JSON document:
\* a list, an object with its "tool_version", "rules_version" and
\* "fingerprints" (None for a key that is absent), or a scalar
Absent == <<"absent">>

NotJson == <<"not json">>

JList(items) == <<"list", items>>

JObject(tool_version, rules_version, fingerprints) ==
    <<"object", tool_version, rules_version, fingerprints>>

JScalar == <<"scalar">>

\* the JSON values of a list: a string and a number
JStr(text) == <<"jstr", text>>

JNum(n) == <<"jnum", n>>

\* str(x) of a value json.loads gives
PyStr(x) == IF x[1] = "jstr" THEN x[2] ELSE <<"decimal text of", x[2]>>

\* json.dumps of a list of str
DumpStrs(texts) == [ i \in DOMAIN texts |-> JStr(texts[i]) ]

\* a baseline that holds no fingerprint whatever it is given
write_baseline_Empty(fingerprints) ==
    JObject(Some(CurrentToolVersion), Some(RULESET_VERSION), Some(<<>>))

\* write_baseline(path, fingerprints): what the path holds afterwards
write_baseline(fingerprints) ==
    JObject(Some(CurrentToolVersion), Some(RULESET_VERSION),
            Some(DumpStrs(fingerprints)))

\* load_baseline(path), given what the path holds
load_baseline(content) ==
    IF content = Absent THEN Err("FileNotFoundError", "baseline")
    ELSE IF content = NotJson THEN Err("JSONDecodeError", "baseline")
    ELSE IF content[1] = "list"
    THEN Err("ValueError", "Legacy baseline format is unsupported; regenerate the baseline")
    ELSE IF content[1] = "object"
    THEN IF content[2] = None \/ content[3] = None
         THEN Err("ValueError", "Baseline missing version metadata; regenerate the baseline")
         ELSE IF content[2] # Some(CurrentToolVersion)
         THEN Err("ValueError", "Baseline tool version does not match")
         ELSE IF content[3] # Some(RULESET_VERSION)
         THEN Err("ValueError", "Baseline rules version does not match")
         ELSE LET fingerprints == IF content[4] = None THEN <<>> ELSE content[4][1]
              IN  Ok({ PyStr(fingerprints[i]) : i \in DOMAIN fingerprints })
    ELSE Ok({})


\* ------------------------------------------------------------ cli.py main

\* how main ends: it returns a code, or an exception leaves it
MainReturns(code) == Ok(code)

MainRaises(type) == Err(type, "raised out of main")

\* the options of lines 142-151, merged from the arguments and the config;
\* the result is the options, or how main ends before it has them
merge_options(args) ==
    LET cfg == load_config(args.config)
        dar_path == resolve_dar(args.dar, args.project)
        min_sev_arg == parse_severity(args.severity)
        fail_on_arg == parse_severity(args.fail_on)
        c == cfg.value
        min_sev == merge_val(min_sev_arg.value, IF c # None THEN c[1].min_severity ELSE None)
        fail_on == merge_val(fail_on_arg.value, IF c # None THEN c[1].fail_on ELSE None)
        merged_fmt == merge_val(args.format, IF c # None THEN c[1].fmt ELSE None)
        ci == IF args.ci THEN TRUE
              ELSE IF c # None /\ c[1].ci # None THEN c[1].ci[1] ELSE FALSE
    IN  IF ~cfg.ok THEN [ok |-> FALSE, exit |-> MainReturns(EXIT_USAGE)]
        ELSE IF ~dar_path.ok THEN [ok |-> FALSE, exit |-> MainReturns(EXIT_USAGE)]
        ELSE IF ~min_sev_arg.ok THEN [ok |-> FALSE, exit |-> MainRaises(min_sev_arg.error.type)]
        ELSE IF ~fail_on_arg.ok THEN [ok |-> FALSE, exit |-> MainRaises(fail_on_arg.error.type)]
        ELSE Ok([ dar_path   |-> dar_path.value,
                  allow      |-> merge_val(args.rules, None),
                  deny       |-> merge_val(args.exclude, None),
                  min_sev    |-> min_sev,
                  fail_on    |-> IF ci /\ fail_on = None THEN Some("MEDIUM") ELSE fail_on,
                  fmt        |-> IF merged_fmt = None THEN "json" ELSE merged_fmt[1],
                  ci         |-> ci,
                  baseline_path |->
                      IF args.baseline # None THEN args.baseline
                      ELSE IF c # None THEN c[1].baseline ELSE None,
                  write_baseline_path |->
                      IF args.write_baseline # None THEN args.write_baseline
                      ELSE IF c # None THEN c[1].write_baseline ELSE None ])

\* _emit(findings, fmt, out_path): what is written and where (None: nothing
\* at all; dest None: stdout), and whether it raised ValueError
emit_report(fs, fmt, out_path) ==
    IF out_path # None
    THEN IF fmt \in {"json", "sarif"}
         THEN [ report |-> Some([dest |-> out_path, formats |-> <<fmt>>, findings |-> fs]),
                raised |-> FALSE ]
         ELSE [ report |-> Some([dest |-> out_path, formats |-> <<>>, findings |-> <<>>]),
                raised |-> TRUE ]
    ELSE LET formats == (IF fmt \in {"json", "both"} THEN <<"json">> ELSE <<>>)
                            \o (IF fmt \in {"sarif", "both"} THEN <<"sarif">> ELSE <<>>)
         IN  [ report |-> IF formats = <<>> THEN None
                          ELSE Some([dest |-> None, formats |-> formats, findings |-> fs]),
               raised |-> FALSE ]

\* ---- the scans

\* a finding as run returns it
ScanFinding(id, severity, n) ==
    [ id |-> id, severity |-> severity, fingerprint |-> <<"fp", n>> ]

\* loaded programs, by the findings the registered rules have on them
ProgramA ==
    [ findings |-> << ScanFinding("DAML-AUTH-001", "MEDIUM", 1),
                      ScanFinding("DAML-LIFE-001", "HIGH", 2),
                      ScanFinding("DAML-DET-001", "LOW", 3) >> ]

ProgramB == [ findings |-> << ScanFinding("DAML-DET-001", "LOW", 4) >> ]

ProgramClean == [ findings |-> <<>> ]

Paths == {"base.json", "new.json"}

\* scan --dar app.dar, on a DAR that loads as ProgramA, with no baseline
\* file on disk; archive is what load_program_from_dar does on the DAR
BaseScan ==
    [ args  |-> [ config |-> None, dar |-> Some("app.dar"), project |-> None,
                  severity |-> None, fail_on |-> None, format |-> None,
                  out |-> None, rules |-> None, exclude |-> None,
                  baseline |-> None, write_baseline |-> None, ci |-> FALSE,
                  archive |-> Ok(ProgramA) ],
      files |-> [ p \in Paths |-> Absent ] ]

BaseConfig == ConfigFile(TRUE, None, None, None, None, None, None)

ConfigOf(scan) == IF scan.args.config = None THEN BaseConfig ELSE scan.args.config[1]

\* a baseline of this version of the tool and of the rules
GoodBaseline(fingerprints) ==
    JObject(Some(CurrentToolVersion), Some(RULESET_VERSION), Some(fingerprints))

WithBaseline(scan, content) ==
    [scan EXCEPT !.args.baseline = Some("base.json"), !.files["base.json"] = content]

\* the ways a scan differs from BaseScan
ScanDeviations ==
    { "config unreadable", "config bad level", "config fail_on", "config ci",
      "config format", "config baseline", "config writes baseline",
      "no dar", "project without dar", "project with dar",
      "severity medium", "severity critical", "severity bogus", "fail_on bogus",
      "ci", "format both", "format sarif", "out",
      "baseline", "baseline of all", "baseline numbers", "baseline no list",
      "baseline absent", "baseline not json", "baseline legacy",
      "baseline no version", "baseline other tool", "baseline other rules",
      "baseline scalar",
      "write baseline", "write over baseline",
      "program B", "program clean", "archive ValueError",
      "archive ProtoDecodeError", "archive LoweringError",
      "archive NotImplementedError", "archive IndexError",
      "allow", "deny" }

DeviateScan(scan, d) ==
    CASE d = "config unreadable" ->
             [scan EXCEPT !.args.config = Some([ConfigOf(scan) EXCEPT !.readable = FALSE])]
      [] d = "config bad level" ->
             [scan EXCEPT !.args.config = Some([ConfigOf(scan) EXCEPT !.severity = Some("bogus")])]
      [] d = "config fail_on" ->
             [scan EXCEPT !.args.config = Some([ConfigOf(scan) EXCEPT !.fail_on = Some("high")])]
      [] d = "config ci" ->
             [scan EXCEPT !.args.config = Some([ConfigOf(scan) EXCEPT !.ci = Some(TRUE)])]
      [] d = "config format" ->
             [scan EXCEPT !.args.config = Some([ConfigOf(scan) EXCEPT !.format = Some("xml")])]
      [] d = "config baseline" ->
             [scan EXCEPT !.args.config = Some([ConfigOf(scan) EXCEPT !.path = Some("base.json")]),
                          !.files["base.json"] =
                              GoodBaseline(<<JStr(<<"fp", 2>>)>>)]
      [] d = "config writes baseline" ->
             [scan EXCEPT !.args.config =
                 Some([ConfigOf(scan) EXCEPT !.path = Some("base.json"),
                                             !.write = Some(<<"bool", TRUE>>)])]
      [] d = "no dar" -> [scan EXCEPT !.args.dar = None]
      [] d = "project without dar" ->
             [scan EXCEPT !.args.dar = None, !.args.project = Some(None)]
      [] d = "project with dar" ->
             [scan EXCEPT !.args.dar = None, !.args.project = Some(Some("proj/app.dar"))]
      [] d = "severity medium" -> [scan EXCEPT !.args.severity = Some("medium")]
      [] d = "severity critical" -> [scan EXCEPT !.args.severity = Some("CRITICAL")]
      [] d = "severity bogus" -> [scan EXCEPT !.args.severity = Some("bogus")]
      [] d = "fail_on bogus" -> [scan EXCEPT !.args.fail_on = Some("bogus")]
      [] d = "ci" -> [scan EXCEPT !.args.ci = TRUE]
      [] d = "format both" -> [scan EXCEPT !.args.format = Some("both")]
      [] d = "format sarif" -> [scan EXCEPT !.args.format = Some("sarif")]
      [] d = "out" -> [scan EXCEPT !.args.out = Some("report.out")]
      [] d = "baseline" ->
             WithBaseline(scan, GoodBaseline(<<JStr(<<"fp", 1>>), JStr(<<"fp", 9>>)>>))
      [] d = "baseline of all" ->
             WithBaseline(scan, GoodBaseline(<<JStr(<<"fp", 1>>), JStr(<<"fp", 2>>),
                                               JStr(<<"fp", 3>>), JStr(<<"fp", 4>>)>>))
      [] d = "baseline numbers" ->
             WithBaseline(scan, GoodBaseline(<<JNum(1), JStr(<<"fp", 2>>)>>))
      [] d = "baseline no list" ->
             WithBaseline(scan, JObject(Some(CurrentToolVersion), Some(RULESET_VERSION), None))
      [] d = "baseline absent" -> WithBaseline(scan, Absent)
      [] d = "baseline not json" -> WithBaseline(scan, NotJson)
      [] d = "baseline legacy" -> WithBaseline(scan, JList(<<JStr(<<"fp", 1>>)>>))
      [] d = "baseline no version" ->
             WithBaseline(scan, JObject(None, Some(RULESET_VERSION), Some(<<JStr(<<"fp", 1>>)>>)))
      [] d = "baseline other tool" ->
             WithBaseline(scan, JObject(Some("0.0.0"), Some(RULESET_VERSION), Some(<<JStr(<<"fp", 1>>)>>)))
      [] d = "baseline other rules" ->
             WithBaseline(scan, JObject(Some(CurrentToolVersion), Some("older ruleset"), Some(<<JStr(<<"fp", 1>>)>>)))
      [] d = "baseline scalar" -> WithBaseline(scan, JScalar)
      [] d = "write baseline" -> [scan EXCEPT !.args.write_baseline = Some("new.json")]
      [] d = "write over baseline" -> [scan EXCEPT !.args.write_baseline = Some("base.json")]
      [] d = "program B" -> [scan EXCEPT !.args.archive = Ok(ProgramB)]
      [] d = "program clean" -> [scan EXCEPT !.args.archive = Ok(ProgramClean)]
      [] d = "archive ValueError" -> [scan EXCEPT !.args.archive = Err("ValueError", "DAR")]
      [] d = "archive ProtoDecodeError" ->
             [scan EXCEPT !.args.archive = Err("ProtoDecodeError", "DAR")]
      [] d = "archive LoweringError" ->
             [scan EXCEPT !.args.archive = Err("LoweringError", "DAR")]
      [] d = "archive NotImplementedError" ->
             [scan EXCEPT !.args.archive = Err("NotImplementedError", "DAR")]
      [] d = "archive IndexError" -> [scan EXCEPT !.args.archive = Err("IndexError", "DAR")]
      [] d = "allow" -> [scan EXCEPT !.args.rules = Some({"DAML-AUTH-001", "DAML-DET-001"})]
      [] d = "deny" -> [scan EXCEPT !.args.exclude = Some({"DAML-LIFE-001"})]

RECURSIVE DeviateScanAll(_, _)
DeviateScanAll(scan, ds) ==
    IF ds = {} THEN scan
    ELSE LET d == CHOOSE x \in ds : TRUE
         IN  DeviateScanAll(DeviateScan(scan, d), ds \ {d})

\* the most ways in which a scan differs from BaseScan, --fail-on aside
MaxOptions == 2

\* the levels --fail-on is given
FailOnTexts == { None, Some("LOW"), Some("medium"), Some("HIGH"), Some("CRITICAL") }

Scans ==
    { [DeviateScanAll(BaseScan, ds) EXCEPT !.args.fail_on =
           IF "fail_on bogus" \in ds THEN Some("bogus") ELSE fail_on] :
        ds \in SubsetsUpTo(ScanDeviations, MaxOptions), fail_on \in FailOnTexts }


CliInit ==
    /\ \E scan \in Scans : cliArgs = Some(scan.args) /\ cliFiles = scan.files
    /\ cliPc = "start"
    /\ cliOpts = None
    /\ cliFindings = <<>>
    /\ cliReport = None
    /\ cliExit = None
    /\ cliHistory = <<>>
    /\ WalkIdle /\ FpIdle /\ DecodeIdle /\ LoadIdle /\ PartyIdle /\ RuleIdle /\ SupIdle /\ InferIdle /\ LowerIdle /\ ResolveIdle /\ SiteIdle

\* main ends
Ends(exit) == cliPc' = "done" /\ cliExit' = Some(exit)

\* lines 127-151: the config is loaded, the DAR resolved, the options merged
MergeOptions ==
    /\ cliPc = "start"
    /\ LET opts == merge_options(cliArgs[1])
       IN  IF opts.ok
           THEN cliOpts' = Some(opts.value) /\ cliPc' = "resolved" /\ UNCHANGED cliExit
           ELSE Ends(opts.exit) /\ UNCHANGED cliOpts
    /\ UNCHANGED <<cliArgs, cliFiles, cliFindings, cliReport, cliHistory, notCliVars>>

\* lines 153-157: load_program_from_dar; NotImplementedError and ValueError
\* (which ProtoDecodeError and LoweringError derive from) are caught
LoadProgram ==
    /\ cliPc = "resolved"
    /\ LET archive == cliArgs[1].archive
       IN  IF archive.ok THEN cliPc' = "loaded" /\ UNCHANGED cliExit
           ELSE IF archive.error.type \in
                     {"NotImplementedError", "ValueError", "ProtoDecodeError", "LoweringError"}
           THEN Ends(MainReturns(EXIT_ERROR))
           ELSE Ends(MainRaises(archive.error.type))
    /\ UNCHANGED <<cliArgs, cliFiles, cliOpts, cliFindings, cliReport, cliHistory, notCliVars>>

\* lines 159-165: the rules are selected and run, the baseline is written
RunRules ==
    /\ cliPc = "loaded"
    /\ LET opts == cliOpts[1]
           found == run_rules(filter_rules(registry, opts.allow, opts.deny),
                              cliArgs[1].archive.value)
       IN  /\ cliFindings' = found
           /\ cliFiles' = IF opts.write_baseline_path # None
                          THEN [cliFiles EXCEPT ![opts.write_baseline_path[1]] =
                                    write_baseline(all_fingerprints(found))]
                          ELSE cliFiles
    /\ cliPc' = "ran"
    /\ UNCHANGED <<cliArgs, cliOpts, cliReport, cliExit, cliHistory, notCliVars>>

\* lines 167-174: the severity filter, then the suppression by the baseline
FilterAndSuppress ==
    /\ cliPc = "ran"
    /\ LET opts == cliOpts[1]
           kept == filter_by_severity(cliFindings, opts.min_sev)
           suppressed == load_baseline(cliFiles[opts.baseline_path[1]])
       IN  IF opts.baseline_path = None
           THEN cliFindings' = kept /\ cliPc' = "filtered" /\ UNCHANGED cliExit
           ELSE IF ~suppressed.ok
           THEN cliFindings' = kept /\ Ends(MainReturns(EXIT_USAGE))
           ELSE /\ cliFindings' =
                       SelectSeq(kept, LAMBDA f : f.fingerprint \notin suppressed.value)
                /\ cliPc' = "filtered" /\ UNCHANGED cliExit
    /\ UNCHANGED <<cliArgs, cliFiles, cliOpts, cliReport, cliHistory, notCliVars>>

\* lines 176-186: the report is emitted and the exit code returned
EmitAndExit ==
    /\ cliPc = "filtered"
    /\ LET opts == cliOpts[1]
           emitted_report == emit_report(cliFindings, opts.fmt, cliArgs[1].out)
       IN  /\ cliReport' = emitted_report.report
           /\ IF emitted_report.raised THEN Ends(MainRaises("ValueError"))
              ELSE Ends(MainReturns(exit_code(cliFindings, opts.fail_on)))
    /\ UNCHANGED <<cliArgs, cliFiles, cliOpts, cliFindings, cliHistory, notCliVars>>

\* after a scan that wrote a baseline, the same input is scanned again with
\* that baseline and any --fail-on; the files stay as the first scan left them
ScanAgain ==
    /\ cliPc = "done"
    /\ cliHistory = <<>>
    /\ cliOpts # None
    /\ cliOpts[1].write_baseline_path # None
    /\ cliArgs[1].archive.ok
    /\ \E fail_on \in FailOnTexts, ci \in BOOLEAN :
           cliArgs' = Some([BaseScan.args EXCEPT
                               !.dar = cliArgs[1].dar,
                               !.project = cliArgs[1].project,
                               !.archive = cliArgs[1].archive,
                               !.rules = cliArgs[1].rules,
                               !.exclude = cliArgs[1].exclude,
                               !.baseline = cliOpts[1].write_baseline_path,
                               !.fail_on = fail_on,
                               !.ci = ci])
    /\ cliHistory' = <<[ args |-> cliArgs[1], opts |-> cliOpts[1],
                         findings |-> cliFindings, report |-> cliReport,
                         exit |-> cliExit[1] ]>>
    /\ cliPc' = "start"
    /\ cliOpts' = None
    /\ cliFindings' = <<>>
    /\ cliReport' = None
    /\ cliExit' = None
    /\ UNCHANGED <<cliFiles, notCliVars>>

CliNext ==
    \/ MergeOptions
    \/ LoadProgram
    \/ RunRules
    \/ FilterAndSuppress
    \/ EmitAndExit
    \/ ScanAgain

CliSpec == CliInit /\ [][CliNext]_vars

\* ------------------------------------------------ claims C17, C18, C19, C20

\* main has returned from its last line: the scan completed
Completed ==
    /\ cliPc = "done"
    /\ cliExit[1].ok
    /\ cliExit[1].value \notin {EXIT_USAGE, EXIT_ERROR}

\* LOW < MEDIUM < HIGH < CRITICAL
SeverityLadder == <<"LOW", "MEDIUM", "HIGH", "CRITICAL">>

AtLeast(a, b) ==
    \E i, j \in DOMAIN SeverityLadder :
        SeverityLadder[i] = a /\ SeverityLadder[j] = b /\ i >= j

\* the level a text names, if it names one
LevelNamed(text) ==
    IF text = None \/ text = Some("") THEN None ELSE Some(Upper(text[1]))

\* the fail-on level in force: that of --fail-on, else that of the config,
\* else MEDIUM in CI mode, else none
LevelInForce ==
    LET args == cliArgs[1]
        of_config == IF args.config = None THEN None
                     ELSE LevelNamed(args.config[1].fail_on)
        ci_mode == args.ci \/ (args.config # None /\ args.config[1].ci = Some(TRUE))
    IN  IF LevelNamed(args.fail_on) # None THEN LevelNamed(args.fail_on)
        ELSE IF of_config # None THEN of_config
        ELSE IF ci_mode THEN Some("MEDIUM")
        ELSE None

\* C17: a scan that completes exits with 1 if a fail-on level is in force
\* (from --fail-on, from the config, or MEDIUM in CI mode when neither gives
\* one) and a finding that remains after the severity filter and the
\* baseline suppression has a severity at or above it; with 0 otherwise.
C17_ExitCode ==
    Completed =>
        cliExit[1].value =
            (IF /\ LevelInForce # None
                /\ \E i \in DOMAIN cliFindings :
                       AtLeast(cliFindings[i].severity, LevelInForce[1])
             THEN 1 ELSE 0)

\* a completed scan in CI mode without a level of its own, which exits with
\* 1 after the filter or the baseline dropped some of its findings
C17_Witness ==
    /\ Completed
    /\ cliArgs[1].fail_on = None
    /\ LevelInForce = Some("MEDIUM")
    /\ cliFindings # <<>>
    /\ Len(cliFindings) < Len(cliArgs[1].archive.value.findings)
    /\ cliExit[1].value = 1

\* a text given as a level that names no level
BadLevel(text) == LevelNamed(text) # None /\ LevelNamed(text)[1] \notin Severities

\* the format and the baseline path in force
FormatInForce ==
    LET args == cliArgs[1]
    IN  IF args.format # None THEN args.format[1]
        ELSE IF args.config # None /\ args.config[1].format # None
        THEN args.config[1].format[1]
        ELSE "json"

BaselineInForce ==
    LET args == cliArgs[1]
    IN  IF args.baseline # None THEN args.baseline
        ELSE IF args.config # None THEN args.config[1].path ELSE None

\* the usage errors of a scan
UsageError ==
    LET args == cliArgs[1]
    IN  \/ args.config # None /\
             ( \/ ~args.config[1].readable
               \/ BadLevel(args.config[1].severity)
               \/ BadLevel(args.config[1].fail_on) )
        \/ args.dar = None /\ args.project \in {None, Some(None)}
        \/ BadLevel(args.severity)
        \/ BadLevel(args.fail_on)
        \/ args.out # None /\ FormatInForce \notin {"json", "sarif"}
        \/ BaselineInForce # None /\ ~load_baseline(cliFiles[BaselineInForce[1]]).ok

\* the input archive fails to decode, exceeds a limit or fails to lower
ArchiveFailure == ~cliArgs[1].archive.ok

\* C18: every usage error of a scan makes main return 2 and every decode,
\* structure-limit or lowering failure of the archive makes main return 3;
\* no report is emitted in either case.
C18_ErrorExitCodes ==
    cliPc = "done" =>
        /\ (UsageError \/ ArchiveFailure) =>
               /\ cliReport = None
               /\ cliExit[1] \in {MainReturns(EXIT_USAGE), MainReturns(EXIT_ERROR)}
        /\ (UsageError /\ ~ArchiveFailure) => cliExit[1] = MainReturns(EXIT_USAGE)
        /\ (ArchiveFailure /\ ~UsageError) => cliExit[1] = MainReturns(EXIT_ERROR)

\* the findings run produces: those of the program under a registered rule
\* that the allow and deny lists of the scan select
Produced ==
    LET args == cliArgs[1]
    IN  SelectSeq(args.archive.value.findings,
            LAMBDA f : /\ \E i \in DOMAIN registry : registry[i] = f.id
                       /\ (args.rules = None \/ f.id \in args.rules[1])
                       /\ (args.exclude = None \/ f.id \notin args.exclude[1]))

\* run has returned in a scan that writes a baseline
BaselineWritten ==
    /\ cliPc \in {"ran", "filtered", "done"}
    /\ cliOpts # None
    /\ cliOpts[1].write_baseline_path # None
    /\ cliArgs[1].archive.ok

WrittenFile == cliFiles[cliOpts[1].write_baseline_path[1]]

\* C19: with --write-baseline the baseline file is written before the
\* severity filter and the baseline suppression are applied: once run has
\* returned the file holds the fingerprint of every finding run produced,
\* while main's findings are still all of them, and the file keeps them
\* whatever the scan drops or suppresses afterwards.
C19_BaselineBeforeFilter ==
    BaselineWritten =>
        /\ WrittenFile[1] = "object"
        /\ WrittenFile[4] = Some([ i \in DOMAIN Produced |-> JStr(Produced[i].fingerprint) ])
        /\ cliPc = "ran" => cliFindings = Produced

\* a scan that wrote its baseline and then dropped or suppressed a finding
\* whose fingerprint the file holds
C19_Witness ==
    /\ BaselineWritten
    /\ cliPc = "done"
    /\ cliOpts[1].min_sev # None
    /\ \E i \in DOMAIN Produced :
           /\ \A j \in DOMAIN cliFindings : cliFindings[j] # Produced[i]
           /\ \E k \in DOMAIN WrittenFile[4][1] :
                  WrittenFile[4][1][k] = JStr(Produced[i].fingerprint)

\* C20: a scan with --write-baseline P followed by a scan of the same input
\* with --baseline P reports zero findings and exits with 0 whatever
\* --fail-on is; load_baseline on the file write_baseline wrote for findings
\* F gives exactly the set of the fingerprints of F.
C20_BaselineRoundTrip ==
    /\ (cliHistory # <<>> /\ cliPc = "done") =>
           /\ cliExit[1] = MainReturns(EXIT_OK)
           /\ cliReport # None
           /\ cliReport[1].findings = <<>>
    /\ (BaselineWritten /\ cliPc = "ran") =>
           /\ load_baseline(WrittenFile).ok
           /\ load_baseline(WrittenFile).value =
                  { cliFindings[i].fingerprint : i \in DOMAIN cliFindings }

\* a first scan reported findings and wrote the baseline; the second scan,
\* with --fail-on LOW, reports none and exits with 0
C20_Witness ==
    /\ cliHistory # <<>>
    /\ cliPc = "done"
    /\ cliHistory[1].report # None
    /\ Len(cliHistory[1].report[1].findings) >= 2
    /\ cliArgs[1].fail_on = Some("LOW")
    /\ cliExit[1] = MainReturns(EXIT_OK)
    /\ cliReport[1].findings = <<>>

\* ------------------------------------------------------------ suppress.py

\* class Suppression; a text is the sequence of its characters
Suppression(rule_id, module, definition, fingerprint) ==
    [ rule_id |-> rule_id, module |-> module, definition |-> definition,
      fingerprint |-> fingerprint ]

\* fnmatch.fnmatchcase(val, pattern), for patterns of literal characters,
\* "*" and "?"
RECURSIVE fnmatchcase(_, _)
fnmatchcase(val, pattern) ==
    IF pattern = <<>> THEN val = <<>>
    ELSE IF Head(pattern) = "*"
    THEN fnmatchcase(val, Tail(pattern))
             \/ (val # <<>> /\ fnmatchcase(Tail(val), pattern))
    ELSE IF val = <<>> THEN FALSE
    ELSE (Head(pattern) = "?" \/ Head(pattern) = Head(val))
             /\ fnmatchcase(Tail(val), Tail(pattern))

\* _match(val, pattern)
match(val, pattern) ==
    IF pattern = None THEN TRUE
    ELSE IF val = None THEN FALSE
    ELSE fnmatchcase(val[1], pattern[1])

\* the body of the loop of is_suppressed for one entry: TRUE when the loop
\* returns True at this entry
suppresses(sup, finding) ==
    /\ sup.rule_id = finding.id
    /\ match(IF finding.location # None THEN Some(finding.location[1].module) ELSE None,
             sup.module)
    /\ match(IF finding.location # None THEN Some(finding.location[1].definition) ELSE None,
             sup.definition)
    /\ ~( /\ sup.fingerprint # None /\ sup.fingerprint # Some(<<>>)
          /\ finding.fingerprint # None /\ finding.fingerprint # Some(<<>>)
          /\ sup.fingerprint # finding.fingerprint )

\* is_suppressed(finding, suppressions)
is_suppressed(finding, suppressions) ==
    \E i \in DOMAIN suppressions : suppresses(suppressions[i], finding)

\* apply_suppressions(findings, suppressions)
apply_suppressions(fs, suppressions) ==
    SelectSeq(fs, LAMBDA f : ~is_suppressed(f, suppressions))

\* ---- the findings and the entries apply_suppressions is given

SupFinding(id, location, fingerprint) ==
    [ id |-> id, location |-> location, fingerprint |-> fingerprint ]

SupLocation(module, definition) == Some([ module |-> module, definition |-> definition ])

TextMain == <<"M", "a", "i", "n">>

TextLowerMain == <<"m", "a", "i", "n">>

TextDo == <<"D", "o">>

TextDeadbeef == <<"d", "e", "a", "d">>

TextCafe == <<"c", "a", "f", "e">>

SupFindingPool ==
    { SupFinding("DAML-AUTH-002", SupLocation(TextMain, TextDo), Some(TextDeadbeef)),
      SupFinding("DAML-AUTH-002", SupLocation(TextMain, TextDo), Some(TextCafe)),
      SupFinding("DAML-AUTH-002", SupLocation(TextMain, TextDo), None),
      SupFinding("DAML-LIFE-001", SupLocation(TextLowerMain, TextDo), Some(TextDeadbeef)),
      SupFinding("DAML-AUTH-002", None, Some(TextDeadbeef)) }

SuppressionPool ==
    { Suppression("DAML-AUTH-002", None, None, None),
      Suppression("DAML-AUTH-002", Some(<<"*">>), Some(<<"*">>), Some(TextDeadbeef)),
      Suppression("DAML-AUTH-002", Some(TextMain), None, None),
      Suppression("DAML-AUTH-002", Some(<<"M", "*", "n">>), Some(<<"D", "?">>), None),
      Suppression("DAML-LIFE-001", Some(TextMain), None, None),
      Suppression("DAML-LIFE-001", Some(<<"?", "a", "i", "n">>), Some(<<"*">>), Some(TextCafe)),
      Suppression("DAML-AUTH-003", None, None, None),
      Suppression("DAML-AUTH-002", Some(TextLowerMain), Some(<<"*", "o">>), Some(TextCafe)) }

\* the most findings and the most entries of one call
MaxSupFindings == 2

MaxSuppressions == 2

\* the sequences over a set of at most n elements
RECURSIVE SeqsUpTo(_, _)
SeqsUpTo(S, n) ==
    IF n = 0 THEN {<<>>}
    ELSE LET shorter == SeqsUpTo(S, n - 1)
         IN  shorter \cup { Append(s, x) : s \in shorter, x \in S }

SupInit ==
    /\ supArgs \in { Some([findings |-> fs, suppressions |-> sups]) :
                       fs \in SeqsUpTo(SupFindingPool, MaxSupFindings),
                       sups \in SeqsUpTo(SuppressionPool, MaxSuppressions) }
    /\ supKept = None
    /\ WalkIdle /\ FpIdle /\ DecodeIdle /\ LoadIdle /\ PartyIdle /\ RuleIdle /\ CliIdle /\ InferIdle /\ LowerIdle /\ ResolveIdle /\ SiteIdle

ApplySuppressions ==
    /\ supArgs # None
    /\ supKept = None
    /\ supKept' = Some(apply_suppressions(supArgs[1].findings, supArgs[1].suppressions))
    /\ UNCHANGED <<supArgs, notSupVars>>

SupNext == ApplySuppressions

SupSpec == SupInit /\ [][SupNext]_vars

\* ----------------------------------------------------------------- claim C21

\* an entry matches a finding as the claim has it: same rule, the globs that
\* are given match the location, the fingerprint that is given is the
\* finding's
EntryMatches(sup, finding) ==
    /\ sup.rule_id = finding.id
    /\ sup.module # None =>
           finding.location # None
               /\ fnmatchcase(finding.location[1].module, sup.module[1])
    /\ sup.definition # None =>
           finding.location # None
               /\ fnmatchcase(finding.location[1].definition, sup.definition[1])
    /\ sup.fingerprint # None => sup.fingerprint = finding.fingerprint

\* C21: apply_suppressions returns, in their order, exactly the findings that
\* no entry matches, an entry matching only a finding of its rule whose
\* location its globs match and whose fingerprint is the entry's when it
\* carries one.
C21_SuppressionsApplied ==
    supKept # None =>
        supKept[1] =
            SelectSeq(supArgs[1].findings,
                LAMBDA f : \A i \in DOMAIN supArgs[1].suppressions :
                               ~EntryMatches(supArgs[1].suppressions[i], f))

\* ----------------------------------------------------------------- claim C22

\* the package that decode_dalf hands to _enforce_proto_limits: None when an
\* earlier step of decode_dalf has failed
StructurallyChecked(entry) ==
    IF ~ReachesPackageParse(entry) THEN None
    ELSE LET payload == entry.raw.archive[1].payload.message[1]
             bytes == payload.package_bytes
             major == IF payload.which = "daml_lf_1" THEN 1 ELSE 2
             version == short(normalize_version(major, payload.minor, payload.patch).value)
         IN  IF major = 1 /\ bytes.lf1 # None
             THEN IF version \in SUPPORTED_VERSIONS THEN bytes.lf1 ELSE None
             ELSE IF major = 1
             THEN IF /\ bytes.lf2 # None
                     /\ ~HasIndexBelowTable(bytes.lf2[1])
                     /\ MetadataName(bytes.lf2[1]) = <<"daml-prim">>
                  THEN bytes.lf2 ELSE None
             ELSE IF bytes.lf2 # None /\ version \in SUPPORTED_VERSIONS
             THEN bytes.lf2 ELSE None

\* a message of the tree has a scalar field set
RECURSIVE HasScalarField(_)
HasScalarField(msg) ==
    \/ \E i \in DOMAIN msg : msg[i].type # "TYPE_MESSAGE"
    \/ \E i \in DOMAIN SetSubMessages(msg) : HasScalarField(SetSubMessages(msg)[i])

\* C22: the structural check of decode_dalf rejects the parsed package if and
\* only if its message tree (the root one node at depth 1, every set
\* sub-message, singular or element of a repeated field, one node one level
\* deeper, scalar fields not counted) has more than max_proto_nodes nodes or
\* a node deeper than max_proto_depth; a tree of exactly max_proto_nodes nodes
\* and depth exactly max_proto_depth passes.
C22_ProtoLimitsExact ==
    ( decoded # None /\ StructurallyChecked(dalf[1]) # None ) =>
        LET pkg == StructurallyChecked(dalf[1])[1]
            result == decoded[1]
            rejected == ~result.ok /\ result.error \in ProtoLimitErrors
        IN  /\ rejected <=> ( \/ TreeNodes(pkg.tree) > limits.max_proto_nodes
                              \/ TreeDepth(pkg.tree) > limits.max_proto_depth )
            /\ ( /\ TreeNodes(pkg.tree) = limits.max_proto_nodes
                 /\ TreeDepth(pkg.tree) = limits.max_proto_depth ) => ~rejected

\* a package of exactly max_proto_nodes messages, the deepest at exactly
\* max_proto_depth, with scalar fields at every level, has been decoded
C22_Witness ==
    /\ decoded # None /\ decoded[1].ok
    /\ TreeNodes(decoded[1].value.lf_package.tree) = limits.max_proto_nodes
    /\ TreeDepth(decoded[1].value.lf_package.tree) = limits.max_proto_depth
    /\ HasScalarField(decoded[1].value.lf_package.tree)
    /\ Len(decoded[1].value.lf_package.tree) > limits.max_proto_nodes

\* ============================================ infer_party_set on its own

\* the expressions bound and returned by the lets
InferAtoms ==
    { PartyLit(p) : p \in Parties }
        \cup { Var("x"), Var("y"),
               ValueExpr("cons", None, <<PartyLit(<<"party", 1>>), Var("x")>>) }

InferBindings ==
    { Binding(name, bound) : name \in {"x", "y"}, bound \in InferAtoms }

\* the most bindings of a let
MaxBindings == 2

InferLets ==
    { ValueExpr("let", None, Append(bindings, body)) :
        bindings \in SeqsUpTo(InferBindings, MaxBindings),
        body \in InferAtoms
                   \cup { ValueExpr("let", None,
                              <<Binding("x", PartyLit(<<"party", 2>>)), Var("x")>>),
                          ValueExpr("cons", None,
                              <<ValueExpr("let", None,
                                    <<Binding("y", PartyLit(<<"party", 2>>)), Var("y")>>),
                                Var("y")>>) } }

\* lets whose bindings the loop passes over: a child that is no binding, a
\* binding without a bound expression, a binding whose name is no text
IllFormedLets ==
    { ValueExpr("let", None,
          <<Var("x"), ValueExpr("binding", Str(<<"x">>), <<>>),
            ValueExpr("binding", None, <<PartyLit(<<"party", 1>>)>>),
            Binding("y", PartyLit(<<"party", 1>>)), body>>) : body \in InferAtoms }

InferExprs ==
    InferLets \cup IllFormedLets \cup InferAtoms
        \cup { ValueExpr("cons", None, <<e, Var("x")>>) : e \in InferLets }

InferEnvs ==
    { EmptyEnv,
      EnvSet(EmptyEnv, <<"x">>, PartySet({<<"party", 1>>}, FALSE)),
      EnvSet(EmptyEnv, <<"x">>, unknown_set),
      EnvSet(EnvSet(EmptyEnv, <<"x">>, EmptyPartySet), <<"y">>,
             PartySet({<<"party", 2>>}, FALSE)) }

InferInit ==
    /\ inferArgs \in { Some([expr |-> e, env |-> env]) : e \in InferExprs, env \in InferEnvs }
    /\ inferOut = None
    /\ WalkIdle /\ FpIdle /\ DecodeIdle /\ LoadIdle /\ PartyIdle /\ RuleIdle /\ CliIdle /\ LowerIdle /\ ResolveIdle /\ SiteIdle
    /\ SupIdle

\* infer_party_set(expr, env): the writes of the call go to local_env, the
\* dict(env) made by the let branch, and leave the dict of the caller alone
Infer ==
    /\ inferArgs # None /\ inferOut = None
    /\ inferOut' = Some(infer_party_set(inferArgs[1].expr, inferArgs[1].env))
    /\ UNCHANGED <<inferArgs, notInferVars>>

InferNext == Infer

InferSpec == InferInit /\ [][InferNext]_vars

\* ----------------------------------------------------------------- claim C23

\* a let whose children before the last are bindings with a name and a
\* bound expression
IsLet(expr) ==
    /\ expr.kind = "let" /\ expr.children # <<>>
    /\ \A i \in 1..(Len(expr.children) - 1) :
          /\ expr.children[i].kind = "binding"
          /\ IsStr(expr.children[i].value)
          /\ expr.children[i].children # <<>>

\* the environment of the claim after the first k bindings of a let: a name
\* that one of them binds maps to the set inferred for the bound expression
\* of the last that binds it, under the environment after the bindings
\* before that one; every other name is as in env
RECURSIVE EnvAfter(_, _, _)
EnvAfter(let, env, k) ==
    LET NameOf(i) == let.children[i].value[2]
        Binders(name) == { i \in 1..k : NameOf(i) = name }
        Last(name) == CHOOSE i \in Binders(name) : \A j \in Binders(name) : j <= i
    IN  [ name \in DOMAIN env \cup { NameOf(i) : i \in 1..k } |->
            IF Binders(name) = {} THEN env[name]
            ELSE infer_party_set(let.children[Last(name)].children[1],
                                 EnvAfter(let, env, Last(name) - 1)) ]

\* C23: infer_party_set on let(b1..bn, body) returns the set inferred for
\* the body under the environment in which each binding name maps to the set
\* inferred for its bound expression under the environment extended by the
\* bindings before it, a later binding of a name shadowing an earlier one;
\* the bindings are not seen outside the let; a var whose name nothing binds
\* infers as unknown; the environment of the caller is left as it was.
C23_LetExtendsEnvironment ==
    inferOut # None =>
        LET expr == inferArgs[1].expr
            env == inferArgs[1].env
        IN  /\ IsLet(expr) =>
                 inferOut[1] =
                     infer_party_set(expr.children[Len(expr.children)],
                                     EnvAfter(expr, env, Len(expr.children) - 1))
            /\ ( expr.kind = "var" /\ expr.value[2] \notin DOMAIN env ) =>
                 inferOut[1] = unknown_set
            /\ ( expr.kind = "var" /\ expr.value[2] \in DOMAIN env ) =>
                 inferOut[1] = env[expr.value[2]]
            /\ ( expr.kind = "cons" /\ IsLet(expr.children[1])
                     /\ <<"x">> \notin DOMAIN env ) => inferOut[1].unknown
            /\ ( expr.kind = "cons" /\ IsLet(expr.children[1])
                     /\ <<"x">> \in DOMAIN env ) =>
                 inferOut[1] = union(infer_party_set(expr.children[1], env), env[<<"x">>])

\* a let that binds x twice, the second time from the first, and returns x,
\* called with an environment that binds x to something else: the result is
\* the set of the second binding
C23_Witness ==
    /\ inferOut # None
    /\ inferArgs[1].expr =
           ValueExpr("let", None,
               <<Binding("x", PartyLit(<<"party", 2>>)),
                 Binding("x", ValueExpr("cons", None, <<PartyLit(<<"party", 1>>), Var("x")>>)),
                 Var("x")>>)
    /\ <<"x">> \in DOMAIN inferArgs[1].env
    /\ inferArgs[1].env[<<"x">>] = unknown_set
    /\ inferOut[1] = PartySet({<<"party", 1>>, <<"party", 2>>}, FALSE)

\* ============================================================ ir/lower.py

\* ---- the messages of the package schema that reach the lowering
\* a Type message: which is "prim" (name the primitive), "interned" (the
\* index into the interned type table) or "unset"
ProtoType(which, name, interned) == [which |-> which, name |-> name, interned |-> interned]

UnsetType == ProtoType("unset", <<>>, 0)

PrimType(name) == ProtoType("prim", <<name>>, 0)

InternedType(idx) == ProtoType("interned", <<>>, idx)

\* a VarWithType message, its name resolved
VarWithType(name, type) == [name |-> <<name>>, type |-> type]

\* an Expr message: which is the field of its oneof that is set; name is the
\* resolved name of a var, or the field set in the Update of an update;
\* binders are the params of an abs and the binders of the bindings of a let
\* or a block; children are the sub-expressions in the order of the fields
\* (a let or block: the bound expressions, then the body; a cons: the front,
\* then the tail; an app: the function, then the arguments)
ProtoExpr(which, name, binders, type, interned_expr, children) ==
    [ which |-> which, name |-> name, binders |-> binders, type |-> type,
      interned_expr |-> interned_expr, children |-> children ]

PVar(name) == ProtoExpr("var_interned_str", <<name>>, <<>>, UnsetType, 0, <<>>)

PLit == ProtoExpr("prim_lit", <<>>, <<>>, UnsetType, 0, <<>>)

PAbs(params, body) == ProtoExpr("abs", <<>>, params, UnsetType, 0, <<body>>)

PLet(binders, bounds, body) == ProtoExpr("let", <<>>, binders, UnsetType, 0, Append(bounds, body))

PBlock(binders, bounds, body) ==
    ProtoExpr("update", <<"block">>, binders, UnsetType, 0, Append(bounds, body))

PPure(body) == ProtoExpr("update", <<"pure">>, <<>>, UnsetType, 0, <<body>>)

PNil == ProtoExpr("nil", <<>>, <<>>, PrimType("PARTY"), 0, <<>>)

PCons(front, tail) == ProtoExpr("cons", <<>>, <<>>, UnsetType, 0, Append(front, tail))

PApp(fun, args) == ProtoExpr("app", <<>>, <<>>, UnsetType, 0, <<fun>> \o args)

PInterned(idx) == ProtoExpr("interned_expr", <<>>, <<>>, UnsetType, idx, <<>>)

\* ---- the IR

\* ir.model.Type
IrType(kind, name, args) == [kind |-> kind, name |-> name, args |-> args]

\* ir.model.Expr: typ is None or a Type
LoweredExpr(kind, value, typ, children) ==
    [ kind |-> kind, value |-> value, typ |-> typ, children |-> children ]

\* the frames the interpreter allows a chain of nested calls
RecursionLimit == 16

RecursionError == Err("RecursionError", "maximum recursion depth exceeded")

\* _lower_type_lf1 / _lower_type_lf2; frames is the depth of the call
RECURSIVE lower_type(_, _, _)
lower_type(typ, resolver, frames) ==
    IF frames > RecursionLimit THEN RecursionError
    ELSE IF typ.which = "interned"
    THEN IF 0 <= typ.interned /\ typ.interned < Len(resolver.interned.types)
         THEN lower_type(resolver.interned.types[typ.interned + 1], resolver, frames + 1)
         ELSE Ok(IrType("unknown", <<>>, <<>>))
    ELSE IF typ.which = "prim"
    THEN IF typ.name = <<"PARTY">> THEN Ok(IrType("con", <<"Party">>, <<>>))
         ELSE Ok(IrType("con", typ.name, <<>>))
    ELSE Ok(IrType("unknown", <<>>, <<>>))

\* env.get(name)
TypeOf(env, name) == IF name \in DOMAIN env THEN Some(env[name]) ELSE None

\* the loop of the abs branch over reversed(params): each param wraps the
\* lowered body in a lam
RECURSIVE lower_abs(_, _, _, _)
lower_abs(body, params, resolver, frames) ==
    IF params = <<>> THEN Ok(body)
    ELSE LET param == params[Len(params)]
             typ == lower_type(param.type, resolver, frames + 1)
         IN  IF ~typ.ok THEN typ
             ELSE lower_abs(LoweredExpr("lam", param.name, None, <<body>>),
                            SubSeq(params, 1, Len(params) - 1), resolver, frames)

\* a flattening that gives up on every cons
flatten_list_Never(cons, resolver, env, frames) == Ok(None)

RECURSIVE lower_expr(_, _, _, _), lower_exprs(_, _, _, _), lower_bindings(_, _, _, _, _, _), flatten_list(_, _, _, _)
\* the comprehensions [_lower_expr(e, ...) for e in ...]: the first raise ends
\* them
lower_exprs(exprs, resolver, env, frames) ==
    IF exprs = <<>> THEN Ok(<<>>)
    ELSE LET first == lower_expr(Head(exprs), resolver, env, frames)
         IN  IF ~first.ok THEN first
             ELSE LET rest == lower_exprs(Tail(exprs), resolver, env, frames)
                  IN  IF ~rest.ok THEN rest ELSE Ok(<<first.value>> \o rest.value)

\* the loop over the bindings of a let or a block: <<bindings, env2>>
lower_bindings(binders, bounds, resolver, env2, frames, bindings) ==
    IF binders = <<>> THEN Ok(<<bindings, env2>>)
    ELSE LET name == Head(binders).name
             typ == lower_type(Head(binders).type, resolver, frames + 1)
             bound == lower_expr(Head(bounds), resolver, env2, frames + 1)
         IN  IF ~typ.ok THEN typ
             ELSE IF ~bound.ok THEN bound
             ELSE lower_bindings(Tail(binders), Tail(bounds), resolver,
                                 [ n \in DOMAIN env2 \cup {name} |->
                                     IF n = name THEN typ.value ELSE env2[n] ],
                                 frames,
                                 Append(bindings,
                                     LoweredExpr("binding", name, None, <<bound.value>>)))

\* _flatten_list_lf1 / _flatten_list_lf2 on the cons of an expression: Ok(None)
\* or Ok(Some(items))
flatten_list(cons, resolver, env, frames) ==
    IF frames > RecursionLimit THEN RecursionError
    ELSE LET n == Len(cons.children)
             items == lower_exprs(SubSeq(cons.children, 1, n - 1), resolver, env, frames + 1)
             tail_expr == cons.children[n]
         IN  IF ~items.ok THEN items
             ELSE IF tail_expr.which = "nil" THEN Ok(Some(items.value))
             ELSE IF tail_expr.which = "cons"
             THEN LET rest == flatten_list(tail_expr, resolver, env, frames + 1)
                  IN  IF ~rest.ok THEN rest
                      ELSE IF rest.value = None THEN Ok(None)
                      ELSE Ok(Some(items.value \o rest.value[1]))
             ELSE Ok(None)

\* _lower_expr_lf1 / _lower_expr_lf2 (with _lower_update_lf1 / _lower_update_lf2
\* for pure and block), for the fields var, abs, let, nil, cons, app, update
\* and interned_expr of the oneof; every other field is a leaf here
lower_expr(expr, resolver, env, frames) ==
    IF frames > RecursionLimit THEN RecursionError
    ELSE IF expr.which = "var_interned_str"
    THEN Ok(LoweredExpr("var", expr.name, TypeOf(env, expr.name), <<>>))
    ELSE IF expr.which = "app"
    THEN LET all == lower_exprs(expr.children, resolver, env, frames + 1)
         IN  IF ~all.ok THEN all ELSE Ok(LoweredExpr("app", <<>>, None, all.value))
    ELSE IF expr.which = "abs"
    THEN LET body == lower_expr(expr.children[1], resolver, env, frames + 1)
         IN  IF ~body.ok THEN body
             ELSE lower_abs(body.value, expr.binders, resolver, frames)
    ELSE IF expr.which = "update" /\ frames + 1 > RecursionLimit
    THEN RecursionError
    ELSE IF expr.which = "let" \/ (expr.which = "update" /\ expr.name = <<"block">>)
    THEN LET n == Len(expr.children)
             inner == IF expr.which = "let" THEN frames ELSE frames + 1
             kind == IF expr.which = "let" THEN "let" ELSE "update.block"
             bound == lower_bindings(expr.binders, SubSeq(expr.children, 1, n - 1),
                                     resolver, env, inner, <<>>)
         IN  IF ~bound.ok THEN bound
             ELSE LET body == lower_expr(expr.children[n], resolver, bound.value[2],
                                         inner + 1)
                  IN  IF ~body.ok THEN body
                      ELSE Ok(LoweredExpr(kind, <<>>, None,
                                          Append(bound.value[1], body.value)))
    ELSE IF expr.which = "update" /\ expr.name = <<"pure">>
    THEN LET body == lower_expr(expr.children[1], resolver, env, frames + 2)
         IN  IF ~body.ok THEN body
             ELSE Ok(LoweredExpr("update.pure", <<>>, None, <<body.value>>))
    ELSE IF expr.which = "update"
    THEN Ok(LoweredExpr("update." \o expr.name[1], <<>>, None, <<>>))
    ELSE IF expr.which = "nil"
    THEN LET typ == lower_type(expr.type, resolver, frames + 1)
         IN  IF ~typ.ok THEN typ
             ELSE Ok(LoweredExpr("list", <<>>, Some(IrType("list", <<>>, <<typ.value>>)), <<>>))
    ELSE IF expr.which = "cons"
    THEN LET flattened == flatten_list(expr, resolver, env, frames + 1)
         IN  IF ~flattened.ok THEN flattened
             ELSE IF flattened.value # None
             THEN Ok(LoweredExpr("list", <<>>, None, flattened.value[1]))
             ELSE LET all == lower_exprs(expr.children, resolver, env, frames + 1)
                  IN  IF ~all.ok THEN all
                      ELSE Ok(LoweredExpr("cons", <<>>, None, all.value))
    ELSE IF /\ expr.which = "interned_expr"
            /\ 0 <= expr.interned_expr
            /\ expr.interned_expr < Len(resolver.interned.exprs)
    THEN lower_expr(resolver.interned.exprs[expr.interned_expr + 1], resolver, env,
                    frames + 1)
    ELSE Ok(LoweredExpr("expr." \o expr.which, <<>>, None, <<>>))

\* ---- the definitions of a module

\* a DefValue (kind "value", exprs its body) or a DefTemplate with one choice
\* (kind "template", exprs its signatories and the controllers and the update
\* of the choice; param the template parameter, arg_binder the binder of the
\* choice argument)
DefValue(expr) ==
    [ kind |-> "value", name |-> <<"v">>, param |-> <<>>,
      arg_binder |-> VarWithType("", UnsetType), exprs |-> <<expr>> ]

DefTemplate(param, arg_binder, signatories, controllers, update) ==
    [ kind |-> "template", name |-> <<"T">>, param |-> <<param>>,
      arg_binder |-> arg_binder, exprs |-> <<signatories, controllers, update>> ]

\* the environment a top-level expression of the definition is lowered in:
\* none for a value (_lower_lf1_value), the parameter for the signatories
\* (_lower_lf1_template), the parameter and the argument for the expressions
\* of the choice (_lower_lf1_choice); Ok(env) or what _lower_type raised
definition_env(definition, i, resolver) ==
    IF definition.kind = "value" THEN Ok(<<>>)
    ELSE LET env == [ n \in {definition.param} |->
                        IrType("con", <<"Main">> \o definition.name, <<>>) ]
         IN  IF i = 1 THEN Ok(env)
             ELSE LET arg_type == lower_type(definition.arg_binder.type, resolver, 2)
                  IN  IF ~arg_type.ok THEN arg_type
                      ELSE Ok([ n \in DOMAIN env \cup {definition.arg_binder.name} |->
                                  IF n = definition.arg_binder.name THEN arg_type.value
                                  ELSE env[n] ])

\* the frames above the call of _lower_expr for the i-th expression
definition_frames(definition, i) ==
    IF definition.kind = "value" \/ i = 1 THEN 1 ELSE 2

\* _lower_lf1_value, _lower_lf1_template with _lower_lf1_choice (and the lf2
\* ones): the lowered top-level expressions of the definition, in order
RECURSIVE lower_definition_from(_, _, _)
lower_definition_from(definition, resolver, i) ==
    IF i > Len(definition.exprs) THEN Ok(<<>>)
    ELSE LET env == definition_env(definition, i, resolver)
         IN  IF ~env.ok THEN env
             ELSE LET first == lower_expr(definition.exprs[i], resolver, env.value,
                                          definition_frames(definition, i))
                  IN  IF ~first.ok THEN first
                      ELSE LET rest == lower_definition_from(definition, resolver, i + 1)
                           IN  IF ~rest.ok THEN rest
                               ELSE Ok(<<first.value>> \o rest.value)

\* lower_packages on a package of one module of one definition
lower_definition(lf_major, interned, definition) ==
    IF lf_major \in {1, 2}
    THEN lower_definition_from(definition, [interned |-> interned], 1)
    ELSE Err("LoweringError", "Unsupported LF major")

\* ---- the definitions and the tables that are lowered

InternedTables(exprs, types) == [exprs |-> exprs, types |-> types]

\* the limits the packages of the lowering are decoded under
\* (DAML_SAST_MAX_PROTO_DEPTH, DAML_SAST_MAX_PROTO_NODES)
MaxProtoDepth == 6

MaxProtoNodes == 40

\* an expression table in which each entry applies a function to the entry
\* before it, one entry longer than the depth limit
ChainTable ==
    [ k \in 1..(MaxProtoDepth + 1) |->
        IF k = 1 THEN PVar("x") ELSE PApp(PVar("f"), <<PInterned(k - 2)>>) ]

\* no table; tables without a reference; a chain of references; an expression
\* that refers to itself; two that refer to each other; a type that refers to
\* itself; two types that refer to each other
Tables ==
    { InternedTables(<<>>, <<>>),
      InternedTables(<<PLit, PVar("x")>>, <<PrimType("TEXT")>>),
      InternedTables(<<PLit, PApp(PVar("x"), <<PInterned(0)>>),
                       PApp(PLit, <<PInterned(1)>>)>>,
                     <<PrimType("PARTY"), InternedType(0), InternedType(1)>>),
      InternedTables(<<PInterned(0)>>, <<PrimType("TEXT")>>),
      InternedTables(<<PApp(PLit, <<PInterned(1)>>), PInterned(0)>>, <<>>),
      InternedTables(<<PLit>>, <<InternedType(0)>>),
      InternedTables(<<>>, <<InternedType(1), InternedType(0)>>),
      InternedTables(ChainTable, <<>>) }

FrontsPool == { <<>>, <<PVar("x")>>, <<PLit, PVar("y")>> }

ChainEnds == { PNil, PVar("x"), PInterned(0), PApp(PLit, <<PNil>>) }

\* the most levels of a chain of cons
MaxChain == 2

RECURSIVE ConsChains(_)
ConsChains(k) ==
    IF k = 0 THEN ChainEnds
    ELSE ConsChains(k - 1)
             \cup { PCons(front, tail) : front \in FrontsPool, tail \in ConsChains(k - 1) }

ConsExprs ==
    (ConsChains(MaxChain) \ (ChainEnds \ {PNil}))
        \cup { PCons(<<PCons(<<PVar("x")>>, PNil), PLit>>, PNil),
               PCons(<<PCons(<<PVar("x")>>, PNil)>>, PCons(<<PLit>>, PVar("y"))),
               PLet(<<VarWithType("x", PrimType("PARTY"))>>, <<PLit>>,
                    PCons(<<PVar("x")>>, PCons(<<PVar("y")>>, PNil))) }

ParamPool ==
    { VarWithType("x", PrimType("PARTY")), VarWithType("y", PrimType("TEXT")),
      VarWithType("x", UnsetType), VarWithType("y", InternedType(0)) }

\* the most params of an abs
MaxParams == 3

AbsExprs ==
    { PAbs(params, body) :
        params \in SeqsUpTo(ParamPool, MaxParams),
        body \in { PVar("x"), PVar("y"), PLit,
                   PAbs(<<VarWithType("x", PrimType("TEXT"))>>, PVar("x")) } }

BinderPool ==
    { VarWithType("x", PrimType("PARTY")), VarWithType("y", PrimType("TEXT")),
      VarWithType("x", InternedType(0)) }

\* the sequences of n elements of a set
RECURSIVE SeqsOf(_, _)
SeqsOf(S, n) ==
    IF n = 0 THEN {<<>>} ELSE { Append(s, x) : s \in SeqsOf(S, n - 1), x \in S }

LetsOf(n) ==
    UNION { { PLet(binders, bounds, body), PBlock(binders, bounds, body) } :
              binders \in SeqsOf(BinderPool, n),
              bounds \in SeqsOf({PVar("x"), PLit}, n),
              body \in {PVar("x"), PVar("y")} }

LetExprs == UNION { LetsOf(n) : n \in 0..MaxBindings }

RefExprs ==
    { PInterned(i) : i \in -1..3 }
        \cup { PApp(PLit, <<PInterned(2)>>), PPure(PInterned(1)),
               PPure(PApp(PInterned(2), <<PInterned(2)>>)),
               ProtoExpr("update", <<"create">>, <<>>, UnsetType, 0, <<>>),
               PAbs(<<VarWithType("x", PrimType("PARTY")),
                      VarWithType("y", PrimType("PARTY")),
                      VarWithType("z", PrimType("PARTY"))>>, PInterned(2)),
               PInterned(MaxProtoDepth),
               PAbs([ k \in 1..MaxProtoDepth |-> VarWithType("p", UnsetType) ], PVar("p")) }

Definitions ==
    { DefValue(e) : e \in ConsExprs \cup AbsExprs \cup LetExprs \cup RefExprs }
        \cup { DefTemplate("this", arg_binder, signatories, controllers, update) :
                 arg_binder \in { VarWithType("arg", PrimType("PARTY")),
                                  VarWithType("this", PrimType("TEXT")),
                                  VarWithType("arg", InternedType(0)) },
                 signatories \in { PVar("this"), PCons(<<PVar("this")>>, PNil) },
                 controllers \in { PVar("arg"), PVar("this"),
                                   PAbs(<<VarWithType("this", PrimType("TEXT"))>>,
                                        PVar("this")) },
                 update \in { PPure(PVar("arg")),
                              PBlock(<<VarWithType("arg", PrimType("TEXT"))>>,
                                     <<PVar("arg")>>, PVar("arg")) } }

LowerInit ==
    /\ lowerArgs \in { Some([lf_major |-> m, interned |-> t, definition |-> d]) :
                         m \in {1, 2}, t \in Tables, d \in Definitions }
    /\ lowerOut = None
    /\ WalkIdle /\ FpIdle /\ DecodeIdle /\ LoadIdle /\ PartyIdle /\ RuleIdle /\ CliIdle
    /\ SupIdle /\ InferIdle /\ ResolveIdle /\ SiteIdle

\* lower_packages
LowerDefinition ==
    /\ lowerArgs # None /\ lowerOut = None
    /\ lowerOut' = Some(lower_definition(lowerArgs[1].lf_major, lowerArgs[1].interned,
                                         lowerArgs[1].definition))
    /\ UNCHANGED <<lowerArgs, notLowerVars>>

LowerNext == LowerDefinition

LowerSpec == LowerInit /\ [][LowerNext]_vars

\* ----------------------------------------------------------------- claim C24

\* the chain of a cons: the front elements of all its levels, in order, and
\* the expression it ends in
RECURSIVE ChainFront(_), ChainEnd(_)
ChainFront(cons) ==
    LET n == Len(cons.children)
    IN  SubSeq(cons.children, 1, n - 1)
            \o (IF cons.children[n].which = "cons" THEN ChainFront(cons.children[n])
                ELSE <<>>)

ChainEnd(cons) ==
    LET tail == cons.children[Len(cons.children)]
    IN  IF tail.which = "cons" THEN ChainEnd(tail) ELSE tail

\* the lowering of each of some expressions
Lowered(exprs, resolver, env) ==
    [ i \in 1..Len(exprs) |-> lower_expr(exprs[i], resolver, env, 2).value ]

\* C24: in both dialects the lowering of a cons whose chain of directly
\* nested cons ends in nil is one list node whose children are the lowered
\* front elements of all levels in source order; a cons whose chain ends in
\* another expression lowers to a cons node whose children are its lowered
\* front elements followed by its lowered tail.
C24_ConsFlattened ==
    ( /\ lowerOut # None /\ lowerOut[1].ok
      /\ lowerArgs[1].definition.kind = "value"
      /\ lowerArgs[1].definition.exprs[1].which = "cons" ) =>
        LET cons == lowerArgs[1].definition.exprs[1]
            resolver == [interned |-> lowerArgs[1].interned]
            ir == lowerOut[1].value[1]
        IN  IF ChainEnd(cons).which = "nil"
            THEN /\ ir.kind = "list"
                 /\ ir.children = Lowered(ChainFront(cons), resolver, <<>>)
                 /\ Len(ir.children) = Len(ChainFront(cons))
            ELSE /\ ir.kind = "cons"
                 /\ ir.children = Lowered(cons.children, resolver, <<>>)

\* a v2 cons of two levels that ends in nil has been lowered to a list of
\* the three front elements
C24_Witness ==
    /\ lowerOut # None /\ lowerOut[1].ok
    /\ lowerArgs[1].lf_major = 2
    /\ lowerArgs[1].definition.exprs[1] =
           PCons(<<PLit, PVar("y")>>, PCons(<<PVar("x")>>, PNil))
    /\ lowerOut[1].value[1].kind = "list"
    /\ Len(lowerOut[1].value[1].children) = 3
    /\ lowerOut[1].value[1].children[3].kind = "var"

\* ----------------------------------------------------------------- claim C25

\* the type a binder declares: None when its type is not set
Declared(type, resolver) ==
    IF type.which = "unset" THEN None ELSE Some(lower_type(type, resolver, 1).value)

\* the scope after some binders, one after the other
RECURSIVE Bind(_, _, _)
Bind(scope, binders, resolver) ==
    IF binders = <<>> THEN scope
    ELSE Bind([ n \in DOMAIN scope \cup {Head(binders).name} |->
                  IF n = Head(binders).name THEN Declared(Head(binders).type, resolver)
                  ELSE scope[n] ],
              Tail(binders), resolver)

\* the types of the claim for the vars of an expression, in source order:
\* scope maps the names that are bound to what their innermost binder
\* declares
RECURSIVE ScopedTypes(_, _, _), ScopedTypesOfBindings(_, _, _, _)
ScopedTypesOfBindings(binders, children, resolver, scope) ==
    IF binders = <<>> THEN ScopedTypes(children[1], resolver, scope)
    ELSE ScopedTypes(Head(children), resolver, scope)
             \o ScopedTypesOfBindings(Tail(binders), Tail(children), resolver,
                                      Bind(scope, <<Head(binders)>>, resolver))

ScopedTypes(expr, resolver, scope) ==
    IF expr.which = "var_interned_str"
    THEN <<IF expr.name \in DOMAIN scope THEN scope[expr.name] ELSE None>>
    ELSE IF expr.which = "abs"
    THEN ScopedTypes(expr.children[1], resolver, Bind(scope, expr.binders, resolver))
    ELSE IF expr.which = "let" \/ (expr.which = "update" /\ expr.name = <<"block">>)
    THEN ScopedTypesOfBindings(expr.binders, expr.children, resolver, scope)
    ELSE IF /\ expr.which = "interned_expr"
            /\ expr.interned_expr \in 0..(Len(resolver.interned.exprs) - 1)
    THEN ScopedTypes(resolver.interned.exprs[expr.interned_expr + 1], resolver, scope)
    ELSE Concat([ i \in 1..Len(expr.children) |->
                    ScopedTypes(expr.children[i], resolver, scope) ])

\* the typ of the var nodes of a lowered expression, in order
RECURSIVE VarTypes(_)
VarTypes(ir) ==
    IF ir.kind = "var" THEN <<ir.typ>>
    ELSE Concat([ i \in 1..Len(ir.children) |-> VarTypes(ir.children[i]) ])

\* the typ of a var node is the one the claim gives it; a binder whose type is
\* not set leaves the node with the type of kind "unknown"
CarriesType(typ, declared) ==
    \/ typ = declared
    \/ declared = None /\ typ = Some(IrType("unknown", <<>>, <<>>))

\* the scope of the i-th top-level expression of a definition
TopScope(definition, i, resolver) ==
    IF definition.kind = "value" THEN <<>>
    ELSE LET this == [ n \in {definition.param} |->
                         Some(IrType("con", <<"Main">> \o definition.name, <<>>)) ]
         IN  IF i = 1 THEN this ELSE Bind(this, <<definition.arg_binder>>, resolver)

\* C25: every var node of a lowered definition carries the declared type of
\* the innermost enclosing binder of its name (template parameter, choice
\* argument, binding of a let or a block, parameter of a lambda) and no type
\* when nothing binds the name or the binder declares none.
C25_VarCarriesBinderType ==
    ( lowerOut # None /\ lowerOut[1].ok ) =>
        LET definition == lowerArgs[1].definition
            resolver == [interned |-> lowerArgs[1].interned]
        IN  \A i \in DOMAIN definition.exprs :
                LET typs == VarTypes(lowerOut[1].value[i])
                    declared == ScopedTypes(definition.exprs[i], resolver,
                                            TopScope(definition, i, resolver))
                IN  /\ Len(typs) = Len(declared)
                    /\ \A k \in DOMAIN typs : CarriesType(typs[k], declared[k])

\* =========================================================== lf/resolve.py

\* f"<str:{idx}>", f"<dname:{idx}>", f"<import:{idx}>"
Placeholder(what, idx) == <<"<" \o what \o ":" \o ToString(idx) \o ">">>

\* LfResolverBase.interned_str(idx)
interned_str(interned, idx) ==
    IF 0 <= idx /\ idx < Len(interned.strings) THEN interned.strings[idx + 1]
    ELSE Placeholder("str", idx)

\* LfResolverBase.interned_dname(idx): a pre-joined name is the sequence of
\* its segments
interned_dname(interned, idx) ==
    IF 0 <= idx /\ idx < Len(interned.dotted_names) THEN interned.dotted_names[idx + 1]
    ELSE <<Placeholder("dname", idx)>>

\* Lf2Resolver.resolve_package_id(pkg_id), pkg_id.package_import_id set
resolve_package_id(interned, idx) ==
    IF 0 <= idx /\ idx < Len(interned.imports) THEN interned.imports[idx + 1]
    ELSE Placeholder("import", idx)

\* the tables of _extract_interned_tables with the imports of a v2 package
interned_tables(major, pkg) ==
    LET tables == extract_interned_tables(major, pkg)
    IN  IF ~tables.ok THEN tables
        ELSE Ok([ strings |-> tables.value.strings,
                  dotted_names |-> tables.value.dotted_names,
                  imports |-> IF major = 2 THEN pkg.package_imports ELSE <<>> ])

\* ---- the packages and the lookups

\* the most entries of a table, and the indices looked up: from below
\* -MaxTable to above MaxTable
MaxTable == 2

TableTexts == << <<"Main">>, <<"T">>, <<"pkg-1">> >>

Indices == (-(MaxTable + 1))..(MaxTable + 1)

ResolvePackages ==
    { [ interned_strings |-> SubSeq(TableTexts, 1, n),
        interned_dotted_names |-> dotted,
        package_imports |-> SubSeq(<< <<"dep-a">>, <<"dep-b">>, <<"dep-c">> >>, 1, m) ] :
        n \in 0..MaxTable, m \in 0..MaxTable,
        dotted \in {<<>>} \cup { <<segments>> : segments \in SeqsUpTo(Indices, 2) } }

ResolveInit ==
    /\ resolveArgs \in { Some([major |-> major, pkg |-> pkg, lookup |-> lookup, idx |-> idx]) :
                           major \in {1, 2}, pkg \in ResolvePackages,
                           lookup \in {"interned_str", "interned_dname", "package_import_id"},
                           idx \in Indices }
    /\ resolveTables = None /\ resolveOut = None
    /\ WalkIdle /\ FpIdle /\ DecodeIdle /\ LoadIdle /\ PartyIdle /\ RuleIdle /\ CliIdle
    /\ SupIdle /\ InferIdle /\ LowerIdle /\ SiteIdle

\* _extract_interned_tables(major, pkg), at decode time
ExtractInternedTables ==
    /\ resolveArgs # None /\ resolveTables = None
    /\ resolveTables' = Some(interned_tables(resolveArgs[1].major, resolveArgs[1].pkg))
    /\ UNCHANGED <<resolveArgs, resolveOut, notResolveVars>>

\* a lookup of the resolver made over the tables, at lowering time
ResolveIndex ==
    /\ resolveTables # None /\ resolveTables[1].ok /\ resolveOut = None
    /\ resolveOut' =
           Some(CASE resolveArgs[1].lookup = "interned_str" ->
                         <<interned_str(resolveTables[1].value, resolveArgs[1].idx)>>
                  [] resolveArgs[1].lookup = "interned_dname" ->
                         interned_dname(resolveTables[1].value, resolveArgs[1].idx)
                  [] OTHER ->
                         <<resolve_package_id(resolveTables[1].value, resolveArgs[1].idx)>>)
    /\ UNCHANGED <<resolveArgs, resolveTables, notResolveVars>>

ResolveNext == ExtractInternedTables \/ ResolveIndex

ResolveSpec == ResolveInit /\ [][ResolveNext]_vars

\* ----------------------------------------------------------------- claim C26

\* the entry of a table at an index within it
InTable(table, i) == 0 <= i /\ i < Len(table)

\* C26: for every integer index the lookup of an interned string, of a
\* dotted name or of a package import does not raise and returns the entry of
\* the table exactly when the index is within the table, a placeholder that
\* names the index otherwise; the pre-join of the dotted names at decode time
\* does not raise either, and a segment index outside the string table never
\* gives the text of a string of the table.
C26_ResolutionTotal ==
    /\ resolveTables # None =>
         /\ resolveTables[1].ok
         /\ LET strings == resolveArgs[1].pkg.interned_strings
                dotted == resolveArgs[1].pkg.interned_dotted_names
            IN  \A n \in DOMAIN dotted :
                    SelectSeq(resolveTables[1].value.dotted_names[n],
                              LAMBDA s : \E k \in DOMAIN strings : strings[k] = s)
                        = [ k \in DOMAIN SelectSeq(dotted[n], LAMBDA i : InTable(strings, i)) |->
                              strings[SelectSeq(dotted[n], LAMBDA i : InTable(strings, i))[k] + 1] ]
    /\ resolveOut # None =>
         LET tables == resolveTables[1].value
             idx == resolveArgs[1].idx
             lookup == resolveArgs[1].lookup
         IN  /\ lookup = "interned_str" =>
                  resolveOut[1] = IF InTable(tables.strings, idx)
                                  THEN <<tables.strings[idx + 1]>>
                                  ELSE <<Placeholder("str", idx)>>
             /\ lookup = "interned_dname" =>
                  resolveOut[1] = IF InTable(tables.dotted_names, idx)
                                  THEN tables.dotted_names[idx + 1]
                                  ELSE <<Placeholder("dname", idx)>>
             /\ lookup = "package_import_id" =>
                  resolveOut[1] = IF InTable(tables.imports, idx)
                                  THEN <<tables.imports[idx + 1]>>
                                  ELSE <<Placeholder("import", idx)>>

\* ---- the package message of a definition and its tables, as the schema
\* nests it; a name or an index is a scalar field

\* a Type message: the prim of a primitive type is a message, an interned
\* type a scalar
TypeMessage(type) ==
    IF type.which = "prim" THEN <<MessageField(<<ScalarField(1)>>)>>
    ELSE <<ScalarField(type.interned)>>

\* the fields of a VarWithType: the name, and the type when it is set
BinderMessage(binder) ==
    <<ScalarField(0)>>
        \o (IF binder.type.which = "unset" THEN <<>>
            ELSE <<MessageField(TypeMessage(binder.type))>>)

RECURSIVE ExprMessage(_)
ExprMessage(expr) ==
    LET Sub(i) == ExprMessage(expr.children[i])
        n == Len(expr.children)
        Bindings == [ i \in 1..Len(expr.binders) |->
                        <<MessageField(BinderMessage(expr.binders[i])), MessageField(Sub(i))>> ]
        BlockFields == <<RepeatedField(Bindings), MessageField(Sub(n))>>
    IN  CASE expr.which \in {"var_interned_str", "interned_expr"} -> <<ScalarField(0)>>
          [] expr.which = "prim_lit" -> <<MessageField(<<ScalarField(0)>>)>>
          [] expr.which = "nil" -> <<MessageField(<<MessageField(TypeMessage(expr.type))>>)>>
          [] expr.which = "app" ->
                <<MessageField(<<MessageField(Sub(1)),
                                 RepeatedField([i \in 1..(n - 1) |-> Sub(i + 1)])>>)>>
          [] expr.which = "cons" ->
                <<MessageField(<<RepeatedField([i \in 1..(n - 1) |-> Sub(i)]),
                                 MessageField(Sub(n))>>)>>
          [] expr.which = "abs" ->
                <<MessageField(<<RepeatedField([i \in 1..Len(expr.binders) |->
                                                  BinderMessage(expr.binders[i])]),
                                 MessageField(Sub(1))>>)>>
          [] expr.which = "let" -> <<MessageField(BlockFields)>>
          [] expr.which = "update" /\ expr.name = <<"block">> ->
                <<MessageField(<<MessageField(BlockFields)>>)>>
          [] expr.which = "update" /\ expr.name = <<"pure">> ->
                <<MessageField(<<MessageField(<<MessageField(Sub(1))>>)>>)>>
          [] OTHER -> <<MessageField(<<MessageField(<<ScalarField(0)>>)>>)>>

\* Package: the interned tables and one module with the definition
PackageMessage(interned, definition) ==
    LET Exprs == [ i \in 1..Len(definition.exprs) |-> ExprMessage(definition.exprs[i]) ]
        Definition ==
            IF definition.kind = "value" THEN <<ScalarField(0), MessageField(Exprs[1])>>
            ELSE <<ScalarField(0), MessageField(Exprs[1]),
                   RepeatedField(<< <<ScalarField(0),
                                      MessageField(BinderMessage(definition.arg_binder)),
                                      MessageField(Exprs[2]), MessageField(Exprs[3])>> >>)>>
    IN  <<RepeatedScalarField(<<0>>),
          RepeatedField([ i \in 1..Len(interned.types) |-> TypeMessage(interned.types[i]) ]),
          RepeatedField([ i \in 1..Len(interned.exprs) |-> ExprMessage(interned.exprs[i]) ]),
          RepeatedField(<< <<ScalarField(0), RepeatedField(<<Definition>>)>> >>)>>

\* decode_dalf has accepted the package that is lowered
PassesDecodeLimits ==
    enforce_proto_limits(
        << <<PackageMessage(lowerArgs[1].interned, lowerArgs[1].definition), 1>> >>,
        0, MaxProtoDepth, MaxProtoNodes).ok

\* ----------------------------------------------------------------- claim C27

\* the errors of decoding and lowering
DecodeErrorTypes == {"ProtoDecodeError", "LoweringError", "ValueError"}

\* C27: the lowering of a decoded package ends with the IR or with an error
\* of the decode kind, whatever the interned type and expression tables hold
\* within the decode limits, also when an entry refers to itself or entries
\* refer to each other.
C27_LoweringEnds ==
    ( lowerOut # None /\ PassesDecodeLimits ) =>
        \/ lowerOut[1].ok
        \/ lowerOut[1].error.type \in DecodeErrorTypes

\* ----------------------------------------------------------------- claim C28

\* the depth of a lowered expression: a leaf is 1
RECURSIVE IrDepth(_)
IrDepth(ir) == 1 + MaxOf([ i \in 1..Len(ir.children) |-> IrDepth(ir.children[i]) ])

\* C28: for a package that passes the decode limits no lowered expression
\* tree is deeper than max_proto_depth, also when expressions are reached
\* through interned-expression references or come from lambdas of several
\* parameters.
C28_IrDepthWithinProtoDepth ==
    ( lowerOut # None /\ lowerOut[1].ok /\ PassesDecodeLimits ) =>
        \A i \in DOMAIN lowerOut[1].value : IrDepth(lowerOut[1].value[i]) <= MaxProtoDepth

\* ----------------------------------------------------------------- claim C29

\* what the scan in progress reports and returns when the files are as given
\* at the time it loads its baseline: the findings of the report and the exit
\* code, no findings and EXIT_USAGE when the baseline does not load
ScanOutcome(files) ==
    LET opts == cliOpts[1]
        found == run_rules(filter_rules(registry, opts.allow, opts.deny),
                           cliArgs[1].archive.value)
        kept == filter_by_severity(found, opts.min_sev)
        suppressed == load_baseline(files[opts.baseline_path[1]])
        reported == IF opts.baseline_path = None THEN kept
                    ELSE SelectSeq(kept, LAMBDA f : f.fingerprint \notin suppressed.value)
    IN  IF opts.baseline_path # None /\ ~suppressed.ok
        THEN [findings |-> <<>>, exit |-> EXIT_USAGE]
        ELSE [findings |-> reported, exit |-> exit_code(reported, opts.fail_on)]

\* C29: writing a baseline does not change what the writing scan reports:
\* its findings and its exit code are those of the same scan without the
\* write, which loads its baseline from the files as they were before, also
\* when the path written is the path loaded as the baseline.
C29_WriteLeavesScanAlone ==
    [][ ( cliPc = "loaded" /\ cliPc' = "ran" ) =>
            ScanOutcome(cliFiles') = ScanOutcome(cliFiles) ]_vars

\* ------------- rules/examples.py: the findings of the registered rules, the
\* ------------- site of each, and the baseline of cli.py

\* ir.model.Expr with the type and the location the lowering gave it
SiteExpr(base, typ, location) ==
    [ kind |-> base.kind, value |-> base.value, children |-> base.children,
      typ |-> typ, location |-> location ]

\* Type.is_party_list
is_party_list(typ) ==
    /\ typ.kind = "list"
    /\ Len(typ.args) = 1
    /\ typ.args[1].kind = "con" /\ typ.args[1].name = <<"Party">>

\* _expr_is_direct_party_list_var
expr_is_direct_party_list_var(expr) ==
    expr.kind = "var" /\ expr.typ # None /\ is_party_list(expr.typ[1])

\* _expr_contains_get_time
RECURSIVE expr_contains_get_time(_)
expr_contains_get_time(expr) ==
    \/ \E i \in DOMAIN collect_update_ops(expr) :
           collect_update_ops(expr)[i].kind = "get_time"
    \/ expr.kind = "builtin" /\ expr.value = Str("getTime")
    \/ \E i \in DOMAIN expr.children : expr_contains_get_time(expr.children[i])

\* _location_from(expr, ctx, default_def)
location_from(expr, ctx, default_def) ==
    IF expr.location # None THEN expr.location[1]
    ELSE Location(IF ctx.module_name # "" THEN ctx.module_name ELSE "<unknown>",
                  default_def, None)

\* where a finding comes from: the package, the module and the template, the
\* choice if it is about one, the role expression it is about, and the rule
Site(ctx, template, choice, role, rule) ==
    [ package_id |-> ctx.package_id, module |-> ctx.module_name,
      template |-> template.name,
      choice |-> IF choice = None THEN None ELSE Some(choice[1].name),
      role |-> role, rule |-> rule ]

\* one emit: the finding, with the site it is about
Emit(site, id, severity, message, location, metadata) ==
    << [ site    |-> site,
         finding |-> Finding(id, severity, message, location, metadata, NoFingerprint) ] >>

\* AuthControllerAlignmentRule.visit_choice, with the location of the finding
AuthControllerAlignment(ctx, template, choice) ==
    IF AuthControllerAlignmentRule(template, choice) # <<>>
    THEN Emit(Site(ctx, template, Some(choice), "choice controllers", "DAML-AUTH-001"),
              "DAML-AUTH-001", "MEDIUM",
              "Choice controllers are not a subset of signatories/maintainers.",
              location_from(choice.controllers, ctx, "Choice " \o choice.name),
              ChoiceMetadata(template, choice))
    ELSE <<>>

\* NonconsumingCreateRule.visit_choice, with the location of the finding
NonconsumingCreate(ctx, template, choice) ==
    IF NonconsumingCreateRule(template, choice) # <<>>
    THEN Emit(Site(ctx, template, Some(choice), "choice update", "DAML-LIFE-001"),
              "DAML-LIFE-001", "HIGH",
              "Nonconsuming choice creates a new contract of the same template.",
              location_from(choice.update, ctx, "Choice " \o choice.name),
              ChoiceMetadata(template, choice))
    ELSE <<>>

\* OverbroadObserversRule.visit_template
OverbroadObserversTemplate(ctx, template) ==
    IF expr_is_direct_party_list_var(template.observers)
    THEN Emit(Site(ctx, template, None, "template observers", "DAML-PRIV-001"),
              "DAML-PRIV-001", "MEDIUM",
              "Template observers derived directly from a party list variable.",
              location_from(template.observers, ctx, "Template " \o template.name),
              << <<"template", template.name>> >>)
    ELSE <<>>

\* OverbroadObserversRule.visit_choice
OverbroadObserversChoice(ctx, template, choice) ==
    IF choice.observers # None /\ expr_is_direct_party_list_var(choice.observers[1])
    THEN Emit(Site(ctx, template, Some(choice), "choice observers", "DAML-PRIV-001"),
              "DAML-PRIV-001", "MEDIUM",
              "Choice observers derived directly from a party list variable.",
              location_from(choice.observers[1], ctx, "Choice " \o choice.name),
              ChoiceMetadata(template, choice))
    ELSE <<>>

\* KeyMaintainersAlignmentRule.visit_template
KeyMaintainersAlignment(ctx, template) ==
    IF template.key = None THEN <<>>
    ELSE IF is_definitely_not_subset_of(
                infer_party_set(template.key[1].maintainers, EmptyEnv),
                infer_party_set(template.signatories, EmptyEnv))
    THEN Emit(Site(ctx, template, None, "key maintainers", "DAML-KEY-001"),
              "DAML-KEY-001", "MEDIUM",
              "Key maintainers are not a subset of signatories.",
              location_from(template.key[1].maintainers, ctx, "Template " \o template.name),
              << <<"template", template.name>> >>)
    ELSE <<>>

\* DeterminismTimeRule._check; ctx.template_name is set by the walk
DeterminismCheck(ctx, template, choice, owner, expr) ==
    IF ~expr_contains_get_time(expr) THEN <<>>
    ELSE Emit(Site(ctx, template, choice, owner, "DAML-DET-001"),
              "DAML-DET-001", "LOW",
              "Ledger time referenced in " \o owner \o " logic.",
              location_from(expr, ctx, owner \o " expression"),
              << <<"owner", owner>>,
                 <<"template", IF ctx.template_name # None THEN ctx.template_name[1]
                                                          ELSE "">> >>)

\* DeterminismTimeRule.visit_template
DeterminismTimeTemplate(ctx, template) ==
    DeterminismCheck(ctx, template, None, "template signatories", template.signatories)
        \o DeterminismCheck(ctx, template, None, "template observers", template.observers)
        \o (IF template.key # None
            THEN DeterminismCheck(ctx, template, None, "key body", template.key[1].body)
                     \o DeterminismCheck(ctx, template, None, "key maintainers",
                                         template.key[1].maintainers)
            ELSE <<>>)

\* DeterminismTimeRule.visit_choice
DeterminismTimeChoice(ctx, template, choice) ==
    DeterminismCheck(ctx, template, Some(choice), "choice controllers", choice.controllers)
        \o (IF choice.observers # None
            THEN DeterminismCheck(ctx, template, Some(choice), "choice observers",
                                  choice.observers[1])
            ELSE <<>>)

\* visit_template of one registered rule
visit_template(id, ctx, template) ==
    CASE id = "DAML-PRIV-001" -> OverbroadObserversTemplate(ctx, template)
      [] id = "DAML-KEY-001"  -> KeyMaintainersAlignment(ctx, template)
      [] id = "DAML-DET-001"  -> DeterminismTimeTemplate(ctx, template)
      [] OTHER -> <<>>

\* visit_choice of one registered rule
visit_choice(id, ctx, template, choice) ==
    CASE id = "DAML-AUTH-001" -> AuthControllerAlignment(ctx, template, choice)
      [] id = "DAML-LIFE-001" -> NonconsumingCreate(ctx, template, choice)
      [] id = "DAML-PRIV-001" -> OverbroadObserversChoice(ctx, template, choice)
      [] id = "DAML-DET-001"  -> DeterminismTimeChoice(ctx, template, choice)
      [] OTHER -> <<>>

\* walk_program on the choices of a template, from the k-th on: the rules of
\* the registry in order on each choice (no registered rule has a visit_expr)
RECURSIVE WalkChoices(_, _, _)
WalkChoices(t_ctx, template, k) ==
    IF k > Len(template.choices) THEN <<>>
    ELSE LET choice == template.choices[k]
             c_ctx == derive(t_ctx, None, Some(choice.name),
                             Some("choice:" \o choice.name))
         IN  Concat([ i \in DOMAIN registry |->
                        visit_choice(registry[i], c_ctx, template, choice) ])
                 \o WalkChoices(t_ctx, template, k + 1)

\* walk_program on the templates of a module, from the k-th on
RECURSIVE WalkTemplates(_, _, _)
WalkTemplates(mod_ctx, templates, k) ==
    IF k > Len(templates) THEN <<>>
    ELSE LET template == templates[k]
             t_ctx == derive(mod_ctx, Some(template.name), None,
                             Some("template:" \o template.name))
         IN  Concat([ i \in DOMAIN registry |->
                        visit_template(registry[i], t_ctx, template) ])
                 \o WalkChoices(t_ctx, template, 1)
                 \o WalkTemplates(mod_ctx, templates, k + 1)

\* walk_program on the packages from the k-th on; each has one module
RECURSIVE WalkPackages(_, _)
WalkPackages(pkgs, k) ==
    IF k > Len(pkgs) THEN <<>>
    ELSE WalkTemplates(Ctx(pkgs[k].package_id, pkgs[k].module.name),
                       pkgs[k].module.templates, 1)
             \o WalkPackages(pkgs, k + 1)

\* run(registry(), program): the emitted findings, each finalized
RunRegistry(pkgs) ==
    LET emitted == WalkPackages(pkgs, 1)
    IN  [ i \in DOMAIN emitted |->
            [ site |-> emitted[i].site, finding |-> FinalizeOne(emitted[i].finding) ] ]

\* ------------------------------------------- the programs that are scanned

\* the location the lowering gives an expression of a module compiled with
\* locations: the module, the definition "expr" and the span of its line
\* (_lower_location_lf1, _lower_location_lf2); without them, None
LoweredLocation(module, located, line) ==
    IF located
    THEN Some(Location(module, "expr", Some(SourceSpan(None, line, 1, line, 9))))
    ELSE None

PartyListType == IrType("list", <<>>, <<IrType("con", <<"Party">>, <<>>)>>)

ListOf(p) == ValueExpr("list", None, <<PartyLit(p)>>)

\* a call of getTime
TimeExpr ==
    ValueExpr("app", None,
              <<ValueExpr("builtin", Str("getTime"), <<>>), ValueExpr("record", None, <<>>)>>)

TemplateShapes == { "plain", "priv", "key", "det" }

ChoiceShapes == { "plain", "auth", "life", "priv", "det" }

\* the k-th choice of the t-th template of a module; the line of an
\* expression is its place in the source of the module
SiteChoice(module, located, tname, t, k, shape) ==
    LET line(role) == 100 * t + 10 * k + role
        at(base, typ, role) == SiteExpr(base, typ, LoweredLocation(module, located, line(role)))
    IN  [ name        |-> IF k = 1 THEN "Transfer" ELSE "Revoke",
          consuming   |-> shape # "life",
          controllers |-> at(IF shape = "auth" THEN ListOf(<<"party", 2>>)
                             ELSE IF shape = "det" THEN TimeExpr
                             ELSE ListOf(<<"party", 1>>), None, 1),
          observers   |-> IF shape = "priv"
                          THEN Some(at(Var("watchers"), Some(PartyListType), 2))
                          ELSE None,
          update      |-> at(IF shape = "life" THEN Create(Str(tname))
                             ELSE ValueExpr("update.pure", None,
                                            <<ValueExpr("record", None, <<>>)>>), None, 3) ]

\* the t-th template of a module, with the choices of the given shapes
SiteTemplate(module, located, tname, t, shape, cshapes) ==
    LET at(base, typ, role) == SiteExpr(base, typ, LoweredLocation(module, located, 100 * t + role))
    IN  [ name        |-> tname,
          signatories |-> at(IF shape = "det" THEN TimeExpr ELSE ListOf(<<"party", 1>>),
                             None, 1),
          observers   |-> at(IF shape = "priv" THEN Var("watchers")
                             ELSE ValueExpr("list", None, <<>>),
                             IF shape = "priv" THEN Some(PartyListType) ELSE None, 2),
          key         |-> IF shape = "key"
                          THEN Some([ body        |-> at(ValueExpr("record", None, <<>>), None, 3),
                                      maintainers |-> at(ListOf(<<"party", 2>>), None, 4) ])
                          ELSE None,
          choices     |-> [ k \in DOMAIN cshapes |->
                              SiteChoice(module, located, tname, t, k, cshapes[k]) ] ]

ModuleNames == { "Main", "Other" }

TemplateNames == { "T", "U" }

\* the shapes of the choices of a template: one choice or two
ChoiceShapeLists ==
    { <<a>> : a \in ChoiceShapes } \cup { <<a, b>> : a \in ChoiceShapes, b \in ChoiceShapes }

\* the source of a package: the shape of its template and those of its
\* choices, and whether a second template of the same shapes follows
SiteSources ==
    [ tshape : TemplateShapes, cshapes : ChoiceShapeLists, second : BOOLEAN ]

\* a package of one module compiled from a source; the names of the
\* templates of a module differ, and so do those of the choices of a template
SitePackage(package_id, module, located, tname, source) ==
    LET other == CHOOSE n \in TemplateNames : n # tname
        first == SiteTemplate(module, located, tname, 1, source.tshape, source.cshapes)
    IN  [ package_id |-> package_id,
          module |-> [ name      |-> module,
                       templates |-> IF source.second
                                     THEN <<first,
                                            SiteTemplate(module, located, other, 2,
                                                         source.tshape, source.cshapes)>>
                                     ELSE <<first>> ] ]

\* the packages of a DAR: one package, or two packages of the same source
\* (two versions of it) whose module and template may be renamed; the ids
\* of the packages of a DAR differ
SitePrograms ==
    LET Packages(id, source) ==
            { SitePackage(id, module, located, tname, source) :
                module \in ModuleNames, located \in BOOLEAN, tname \in TemplateNames }
    IN  UNION { { <<p>> : p \in Packages("pkg1", source) }
                  \cup { <<p, q>> : p \in Packages("pkg1", source),
                                    q \in Packages("pkg2", source) } :
                source \in SiteSources }

SiteInit ==
    /\ siteProgram \in { Some(p) : p \in SitePrograms }
    /\ siteFindings = None
    /\ siteKept = None
    /\ WalkIdle /\ FpIdle /\ DecodeIdle /\ LoadIdle /\ PartyIdle /\ RuleIdle /\ CliIdle
    /\ SupIdle /\ InferIdle /\ LowerIdle /\ ResolveIdle

\* findings = run(rules, program) with the rules of the registry
ScanSites ==
    /\ siteProgram # None /\ siteFindings = None
    /\ siteFindings' = Some(RunRegistry(siteProgram[1]))
    /\ UNCHANGED <<siteProgram, siteKept, notSiteVars>>

\* main with a baseline that holds the fingerprint of one finding of the run:
\* findings = [f for f in findings if f.fingerprint not in suppressed]
FilterBaseline ==
    /\ siteFindings # None /\ siteKept = None
    /\ \E chosen \in DOMAIN siteFindings[1] :
         LET suppressed == { siteFindings[1][chosen].finding.fingerprint }
         IN  siteKept' = Some([ chosen |-> chosen,
                                kept   |-> SelectSeq(siteFindings[1],
                                             LAMBDA e : e.finding.fingerprint \notin suppressed) ])
    /\ UNCHANGED <<siteProgram, siteFindings, notSiteVars>>

SiteNext == ScanSites \/ FilterBaseline

SiteSpec == SiteInit /\ [][SiteNext]_vars

\* ------------------------------------------------------------------- C30

\* the findings of the run, each with its site
SiteFindings == siteFindings[1]

\* C30: within one run, two findings that the registered rules emit for
\* different sites (another package, template, choice, role expression or
\* rule) never get the same computed fingerprint, so a baseline that holds the
\* fingerprint of one finding never removes a finding of another site.
C30_DistinctSitesDistinctFingerprints ==
    /\ siteFindings # None =>
           \A i \in DOMAIN SiteFindings, j \in DOMAIN SiteFindings :
               SiteFindings[i].site # SiteFindings[j].site =>
                   SiteFindings[i].finding.fingerprint # SiteFindings[j].finding.fingerprint
    /\ siteKept # None =>
           \A j \in DOMAIN SiteFindings :
               SiteFindings[j].site # SiteFindings[siteKept[1].chosen].site =>
                   \E k \in DOMAIN siteKept[1].kept : siteKept[1].kept[k] = SiteFindings[j]

====
